---------------------------- MODULE Spec2Model ----------------------------
(***************************************************************************)
(* A model of the query-understanding and ranking pipeline of the vehicle  *)
(* recommender (backend/app/services):                                     *)
(*                                                                         *)
(*   semantic_parser_agent.parse_user_needs   text -> Intent               *)
(*   matcher_agent.score_candidates           Intent x candidates -> Match *)
(*   reason_agent.generate_reasons_for_top_k  one batched justification    *)
(*                                                                         *)
(* Python strings are tuples of one-character strings, so that substring   *)
(* tests, strip/lower/split, the brace scanner and the JSON reader are     *)
(* computed character by character.  Python values are tagged records      *)
(* [t, v]; a dict is a function from key strings to values.  Floats are    *)
(* exact fractions [n, d].                                                 *)
(***************************************************************************)
EXTENDS Integers, Sequences, FiniteSets, TLC

\* ------------------------------------------------------------------------
\* Program constants
\* ------------------------------------------------------------------------
\* _looks_truncated: a reply shorter than this is unusable
MinReplyLen == 5

\* max_output_tokens of the extraction call and of its retry
ExtractMaxTokens == 150

RetryMaxTokens == 120

\* ------------------------------------------------------------------------
\* String literals of the source and of the inputs
\* ------------------------------------------------------------------------
\* <strings>
\* the string literals of the source
Lit == [
  \* highway
  highway |-> <<"h","i","g","h","w","a","y">>,
  \* family_size
  family_size |-> <<"f","a","m","i","l","y","_","s","i","z","e">>,
  \* budget_band
  budget_band |-> <<"b","u","d","g","e","t","_","b","a","n","d">>,
  \* usage
  usage |-> <<"u","s","a","g","e">>,
  \* preferences
  preferences |-> <<"p","r","e","f","e","r","e","n","c","e","s">>,
  \* body_type_preference
  body_type_preference |-> <<"b","o","d","y","_","t","y","p","e","_","p","r","e","f","e","r",
      "e","n","c","e">>,
  \* other
  other |-> <<"o","t","h","e","r">>,
  \* heuristic
  heuristic |-> <<"h","e","u","r","i","s","t","i","c">>,
  \* family
  family |-> <<"f","a","m","i","l","y">>,
  \* families
  families |-> <<"f","a","m","i","l","i","e","s">>,
  \* kids
  kids |-> <<"k","i","d","s">>,
  \* small family
  small_family |-> <<"s","m","a","l","l"," ","f","a","m","i","l","y">>,
  \* small families
  small_families |-> <<"s","m","a","l","l"," ","f","a","m","i","l","i","e","s">>,
  \* big family
  big_family |-> <<"b","i","g"," ","f","a","m","i","l","y">>,
  \* large family
  large_family |-> <<"l","a","r","g","e"," ","f","a","m","i","l","y">>,
  \* mid price range
  mid_price_range |-> <<"m","i","d"," ","p","r","i","c","e"," ","r","a","n","g","e">>,
  \* mid price
  mid_price |-> <<"m","i","d"," ","p","r","i","c","e">>,
  \* mid-range
  mid_dash_range |-> <<"m","i","d","-","r","a","n","g","e">>,
  \* mid range
  mid_range |-> <<"m","i","d"," ","r","a","n","g","e">>,
  \* low budget
  low_budget |-> <<"l","o","w"," ","b","u","d","g","e","t">>,
  \* cheap
  cheap |-> <<"c","h","e","a","p">>,
  \* entry level
  entry_level |-> <<"e","n","t","r","y"," ","l","e","v","e","l">>,
  \* entry-level
  entry_dash_level |-> <<"e","n","t","r","y","-","l","e","v","e","l">>,
  \* high budget
  high_budget |-> <<"h","i","g","h"," ","b","u","d","g","e","t">>,
  \* premium
  premium |-> <<"p","r","e","m","i","u","m">>,
  \* luxury
  luxury |-> <<"l","u","x","u","r","y">>,
  \* daily commute
  daily_commute |-> <<"d","a","i","l","y"," ","c","o","m","m","u","t","e">>,
  \* daily commuting
  daily_commuting |-> <<"d","a","i","l","y"," ","c","o","m","m","u","t","i","n","g">>,
  \* daily driving
  daily_driving |-> <<"d","a","i","l","y"," ","d","r","i","v","i","n","g">>,
  \* office commute
  office_commute |-> <<"o","f","f","i","c","e"," ","c","o","m","m","u","t","e">>,
  \* city traffic
  city_traffic |-> <<"c","i","t","y"," ","t","r","a","f","f","i","c">>,
  \* city driving
  city_driving |-> <<"c","i","t","y"," ","d","r","i","v","i","n","g">>,
  \* city use
  city_use |-> <<"c","i","t","y"," ","u","s","e">>,
  \* hiking
  hiking |-> <<"h","i","k","i","n","g">>,
  \* camp
  camp |-> <<"c","a","m","p">>,
  \* offroad
  offroad |-> <<"o","f","f","r","o","a","d">>,
  \* trail
  trail |-> <<"t","r","a","i","l">>,
  \* mountain
  mountain |-> <<"m","o","u","n","t","a","i","n">>,
  \* camping
  camping |-> <<"c","a","m","p","i","n","g">>,
  \* trails
  trails |-> <<"t","r","a","i","l","s">>,
  \* comfortable
  comfortable |-> <<"c","o","m","f","o","r","t","a","b","l","e">>,
  \* comfort
  comfort |-> <<"c","o","m","f","o","r","t">>,
  \* safe
  safe |-> <<"s","a","f","e">>,
  \* safety
  safety |-> <<"s","a","f","e","t","y">>,
  \* mileage
  mileage |-> <<"m","i","l","e","a","g","e">>,
  \* fuel efficient
  fuel_efficient |-> <<"f","u","e","l"," ","e","f","f","i","c","i","e","n","t">>,
  \* fuel efficiency
  fuel_efficiency |-> <<"f","u","e","l"," ","e","f","f","i","c","i","e","n","c","y">>,
  \* low fuel cost
  low_fuel_cost |-> <<"l","o","w"," ","f","u","e","l"," ","c","o","s","t">>,
  \* powerful
  powerful |-> <<"p","o","w","e","r","f","u","l">>,
  \* performance
  performance |-> <<"p","e","r","f","o","r","m","a","n","c","e">>,
  \* sporty
  sporty |-> <<"s","p","o","r","t","y">>,
  \* fast
  fast |-> <<"f","a","s","t">>,
  \* reliable
  reliable |-> <<"r","e","l","i","a","b","l","e">>,
  \* low maintenance
  low_maintenance |-> <<"l","o","w"," ","m","a","i","n","t","e","n","a","n","c","e">>,
  \* midsize car
  midsize_car |-> <<"m","i","d","s","i","z","e"," ","c","a","r">>,
  \* mid size car
  mid_size_car |-> <<"m","i","d"," ","s","i","z","e"," ","c","a","r">>,
  \* mid-size car
  mid_dash_size_car |-> <<"m","i","d","-","s","i","z","e"," ","c","a","r">>,
  \* sedan
  sedan |-> <<"s","e","d","a","n">>,
  \* suv
  suv |-> <<"s","u","v">>,
  \* mid
  mid |-> <<"m","i","d">>,
  \* low
  low |-> <<"l","o","w">>,
  \* high
  high |-> <<"h","i","g","h">>,
  \* city
  city |-> <<"c","i","t","y">>,
  \* ruggedness
  ruggedness |-> <<"r","u","g","g","e","d","n","e","s","s">>,
  \* fuel_economy
  fuel_economy |-> <<"f","u","e","l","_","e","c","o","n","o","m","y">>,
  \* reliability
  reliability |-> <<"r","e","l","i","a","b","i","l","i","t","y">>,
  \* finish_reason=max_tokens
  finish_reason_max_tokens |-> <<"f","i","n","i","s","h","_","r","e","a","s","o","n","=","m",
      "a","x","_","t","o","k","e","n","s">>,
  \* max_tokens
  max_tokens |-> <<"m","a","x","_","t","o","k","e","n","s">>,
  \* partial
  partial |-> <<"p","a","r","t","i","a","l">>,
  \* sdk_http_response
  sdk_http_response |-> <<"s","d","k","_","h","t","t","p","_","r","e","s","p","o","n","s","e">>,
  \* candidates=
  candidates_eq |-> <<"c","a","n","d","i","d","a","t","e","s","=">>,
  \* (grave)(grave)(grave)
  fence |-> <<"GRAVE","GRAVE","GRAVE">>,
  \* json
  json |-> <<"j","s","o","n">>,
  \* null
  null |-> <<"n","u","l","l">>,
  \* true
  true |-> <<"t","r","u","e">>,
  \* false
  false |-> <<"f","a","l","s","e">>,
  \* id
  id |-> <<"i","d">>,
  \* score
  score |-> <<"s","c","o","r","e">>,
  \* metadata
  metadata |-> <<"m","e","t","a","d","a","t","a">>,
  \* name
  name |-> <<"n","a","m","e">>,
  \* raw_name
  raw_name |-> <<"r","a","w","_","n","a","m","e">>,
  \* title
  title |-> <<"t","i","t","l","e">>,
  \* reasons
  reasons |-> <<"r","e","a","s","o","n","s">>,
  \* image_url
  image_url |-> <<"i","m","a","g","e","_","u","r","l">>,
  \* price_band
  price_band |-> <<"p","r","i","c","e","_","b","a","n","d">>,
  \* body_type
  body_type |-> <<"b","o","d","y","_","t","y","p","e">>,
  \* specs
  specs |-> <<"s","p","e","c","s">>,
  \* year
  year |-> <<"y","e","a","r">>,
  \* km_driven
  km_driven |-> <<"k","m","_","d","r","i","v","e","n">>,
  \* fuel
  fuel |-> <<"f","u","e","l">>,
  \* fuel_type
  fuel_type |-> <<"f","u","e","l","_","t","y","p","e">>,
  \* seats
  seats |-> <<"s","e","a","t","s">>,
  \* make
  make |-> <<"m","a","k","e">>,
  \* model
  model |-> <<"m","o","d","e","l">>,
  \* price
  price |-> <<"p","r","i","c","e">>,
  \* selling_price
  selling_price |-> <<"s","e","l","l","i","n","g","_","p","r","i","c","e">>,
  \* drivetrain
  drivetrain |-> <<"d","r","i","v","e","t","r","a","i","n">>,
  \* transmission
  transmission |-> <<"t","r","a","n","s","m","i","s","s","i","o","n">>,
  \* tags
  tags |-> <<"t","a","g","s">>,
  \* reason
  reason |-> <<"r","e","a","s","o","n">>,
  \* label
  label |-> <<"l","a","b","e","l">>,
  \* primary_needs
  primary_needs |-> <<"p","r","i","m","a","r","y","_","n","e","e","d","s">>,
  \* space
  space |-> <<"s","p","a","c","e">>,
  \* easy_to_park
  easy_to_park |-> <<"e","a","s","y","_","t","o","_","p","a","r","k">>,
  \* hatch
  hatch |-> <<"h","a","t","c","h">>,
  \* compact
  compact |-> <<"c","o","m","p","a","c","t">>,
  \* mpv
  mpv |-> <<"m","p","v">>,
  \* minivan
  minivan |-> <<"m","i","n","i","v","a","n">>,
  \* estate
  estate |-> <<"e","s","t","a","t","e">>,
  \* electric
  electric |-> <<"e","l","e","c","t","r","i","c">>,
  \* ev
  ev |-> <<"e","v">>,
  \* hybrid
  hybrid |-> <<"h","y","b","r","i","d">>,
  \* diesel
  diesel |-> <<"d","i","e","s","e","l">>,
  \* petrol
  petrol |-> <<"p","e","t","r","o","l">>,
  \* Unknown
  Unknown |-> <<"U","n","k","n","o","w","n">>,
  \* None
  None |-> <<"N","o","n","e">>,
  \* True
  True |-> <<"T","r","u","e">>,
  \* False
  False |-> <<"F","a","l","s","e">>,
  \* is comfortable to drive
  fb_comfort |-> <<"i","s"," ","c","o","m","f","o","r","t","a","b","l","e"," ","t","o"," ","d",
      "r","i","v","e">>,
  \* helps you save fuel with its hybrid setup
  fb_hybrid |-> <<"h","e","l","p","s"," ","y","o","u"," ","s","a","v","e"," ","f","u","e","l",
      " ","w","i","t","h"," ","i","t","s"," ","h","y","b","r","i","d"," ","s","e","t","u","p">>,
  \* is fuel(non-breaking hyphen)efficient for everyday use
  fb_fuel |-> <<"i","s"," ","f","u","e","l","NBHYPHEN","e","f","f","i","c","i","e","n","t"," ",
      "f","o","r"," ","e","v","e","r","y","d","a","y"," ","u","s","e">>,
  \* has enough space for your family
  fb_seats |-> <<"h","a","s"," ","e","n","o","u","g","h"," ","s","p","a","c","e"," ","f","o",
      "r"," ","y","o","u","r"," ","f","a","m","i","l","y">>,
  \* offers practical space for family use
  fb_space |-> <<"o","f","f","e","r","s"," ","p","r","a","c","t","i","c","a","l"," ","s","p",
      "a","c","e"," ","f","o","r"," ","f","a","m","i","l","y"," ","u","s","e">>,
  \* keeps your family(right quote)s safety in mind
  fb_safety |-> <<"k","e","e","p","s"," ","y","o","u","r"," ","f","a","m","i","l","y","RSQUOTE",
      "s"," ","s","a","f","e","t","y"," ","i","n"," ","m","i","n","d">>,
  \* is easy to handle and park in the city
  fb_park |-> <<"i","s"," ","e","a","s","y"," ","t","o"," ","h","a","n","d","l","e"," ","a","n",
      "d"," ","p","a","r","k"," ","i","n"," ","t","h","e"," ","c","i","t","y">>,
  \* gives you an SUV(right quote)s higher driving position
  fb_suv |-> <<"g","i","v","e","s"," ","y","o","u"," ","a","n"," ","S","U","V","RSQUOTE","s",
      " ","h","i","g","h","e","r"," ","d","r","i","v","i","n","g"," ","p","o","s","i","t","i",
      "o","n">>,
  \* has a balanced sedan design for daily commutes
  fb_sedan |-> <<"h","a","s"," ","a"," ","b","a","l","a","n","c","e","d"," ","s","e","d","a",
      "n"," ","d","e","s","i","g","n"," ","f","o","r"," ","d","a","i","l","y"," ","c","o","m",
      "m","u","t","e","s">>,
  \* comes from a recent model year with modern features
  fb_recent |-> <<"c","o","m","e","s"," ","f","r","o","m"," ","a"," ","r","e","c","e","n","t",
      " ","m","o","d","e","l"," ","y","e","a","r"," ","w","i","t","h"," ","m","o","d","e","r",
      "n"," ","f","e","a","t","u","r","e","s">>,
  \* This car is a well(non-breaking hyphen)rounded choice that fits your described needs.
  fb_default |-> <<"T","h","i","s"," ","c","a","r"," ","i","s"," ","a"," ","w","e","l","l",
      "NBHYPHEN","r","o","u","n","d","e","d"," ","c","h","o","i","c","e"," ","t","h","a","t",
      " ","f","i","t","s"," ","y","o","u","r"," ","d","e","s","c","r","i","b","e","d"," ","n",
      "e","e","d","s",".">>,
  \* , 
  comma_space |-> <<","," ">>
]

\* user texts
Text == [
  \* I need a small family car for daily city commuting, budget around 5 lakhs
  Scenario |-> <<"I"," ","n","e","e","d"," ","a"," ","s","m","a","l","l"," ","f","a","m","i",
      "l","y"," ","c","a","r"," ","f","o","r"," ","d","a","i","l","y"," ","c","i","t","y"," ",
      "c","o","m","m","u","t","i","n","g",","," ","b","u","d","g","e","t"," ","a","r","o","u",
      "n","d"," ","5"," ","l","a","k","h","s">>,
  \* 
  Empty |-> <<>>,
  \* Big family, camping trips: cheap, safe and reliable
  Outdoor |-> <<"B","i","g"," ","f","a","m","i","l","y",","," ","c","a","m","p","i","n","g"," ",
      "t","r","i","p","s",":"," ","c","h","e","a","p",","," ","s","a","f","e"," ","a","n","d",
      " ","r","e","l","i","a","b","l","e">>,
  \* A comfortable mid-size car with good mileage, premium feel
  Midsize |-> <<"A"," ","c","o","m","f","o","r","t","a","b","l","e"," ","m","i","d","-","s","i",
      "z","e"," ","c","a","r"," ","w","i","t","h"," ","g","o","o","d"," ","m","i","l","e","a",
      "g","e",","," ","p","r","e","m","i","u","m"," ","f","e","e","l">>,
  \* Sporty hatch for my daily commute in city traffic, mid range
  Commute |-> <<"S","p","o","r","t","y"," ","h","a","t","c","h"," ","f","o","r"," ","m","y"," ",
      "d","a","i","l","y"," ","c","o","m","m","u","t","e"," ","i","n"," ","c","i","t","y"," ",
      "t","r","a","f","f","i","c",","," ","m","i","d"," ","r","a","n","g","e">>,
  \* hi
  Plain |-> <<"h","i">>
]

\* texts the extraction calls can answer with
Reply == [
  \* {"family_size":4,"budget_band":"mid","usage":["highway"],"preferences":["Comfort"],"body_type_preference":["sedan"],"other":{}}
  Full |-> <<"{","\"","f","a","m","i","l","y","_","s","i","z","e","\"",":","4",",","\"","b","u",
      "d","g","e","t","_","b","a","n","d","\"",":","\"","m","i","d","\"",",","\"","u","s","a",
      "g","e","\"",":","[","\"","h","i","g","h","w","a","y","\"","]",",","\"","p","r","e","f",
      "e","r","e","n","c","e","s","\"",":","[","\"","C","o","m","f","o","r","t","\"","]",",",
      "\"","b","o","d","y","_","t","y","p","e","_","p","r","e","f","e","r","e","n","c","e","\"",
      ":","[","\"","s","e","d","a","n","\"","]",",","\"","o","t","h","e","r","\"",":","{","}",
      "}">>,
  \* {"usage":["city"],"budget_band":"low"}
  Some |-> <<"{","\"","u","s","a","g","e","\"",":","[","\"","c","i","t","y","\"","]",",","\"",
      "b","u","d","g","e","t","_","b","a","n","d","\"",":","\"","l","o","w","\"","}">>,
  \* {"usage":["offroad","family"],"family_size":null}
  Offroad |-> <<"{","\"","u","s","a","g","e","\"",":","[","\"","o","f","f","r","o","a","d","\"",
      ",","\"","f","a","m","i","l","y","\"","]",",","\"","f","a","m","i","l","y","_","s","i",
      "z","e","\"",":","n","u","l","l","}">>,
  \* Sorry, I cannot help
  Prose |-> <<"S","o","r","r","y",","," ","I"," ","c","a","n","n","o","t"," ","h","e","l","p">>,
  \* {"family_size":3,"usage":["city"
  CutOff |-> <<"{","\"","f","a","m","i","l","y","_","s","i","z","e","\"",":","3",",","\"","u",
      "s","a","g","e","\"",":","[","\"","c","i","t","y","\"">>,
  \* {}
  EmptyObj |-> <<"{","}">>,
  \* {"preferences":["partial"]}
  PartialWord |-> <<"{","\"","p","r","e","f","e","r","e","n","c","e","s","\"",":","[","\"","p",
      "a","r","t","i","a","l","\"","]","}">>,
  \* finish_reason=MAX_TOKENS
  Marker |-> <<"f","i","n","i","s","h","_","r","e","a","s","o","n","=","M","A","X","_","T","O",
      "K","E","N","S">>,
  \* {"usage":["city" MAX_TOKENS
  MarkerCut |-> <<"{","\"","u","s","a","g","e","\"",":","[","\"","c","i","t","y","\""," ","M",
      "A","X","_","T","O","K","E","N","S">>,
  \* (grave)(grave)(grave)json\n{"usage":["highway"]}\n(grave)(grave)(grave)
  Fenced |-> <<"GRAVE","GRAVE","GRAVE","j","s","o","n","\n","{","\"","u","s","a","g","e","\"",
      ":","[","\"","h","i","g","h","w","a","y","\"","]","}","\n","GRAVE","GRAVE","GRAVE">>,
  \* [1,2]
  Array |-> <<"[","1",",","2","]">>,
  \* {"usage":null}
  NullUsage |-> <<"{","\"","u","s","a","g","e","\"",":","n","u","l","l","}">>,
  \* Sure: {"family_size":5} ok
  Lead |-> <<"S","u","r","e",":"," ","{","\"","f","a","m","i","l","y","_","s","i","z","e","\"",
      ":","5","}"," ","o","k">>,
  \* {"budget_band":"high",}
  Comma |-> <<"{","\"","b","u","d","g","e","t","_","b","a","n","d","\"",":","\"","h","i","g",
      "h","\"",",","}">>,
  \* {"other":{"k":"}\"{"}}
  BraceInStr |-> <<"{","\"","o","t","h","e","r","\"",":","{","\"","k","\"",":","\"","}","\\",
      "\"","{","\"","}","}">>,
  \* {"usage":["city"],"other":{"k":"(grave)(grave)(grave){}(grave)(grave)(grave)"}}
  FenceInStr |-> <<"{","\"","u","s","a","g","e","\"",":","[","\"","c","i","t","y","\"","]",",",
      "\"","o","t","h","e","r","\"",":","{","\"","k","\"",":","\"","GRAVE","GRAVE","GRAVE","{",
      "}","GRAVE","GRAVE","GRAVE","\"","}","}">>,
  \*   
  Blank |-> <<" "," ">>,
  \* {"family_size":4,"other":{"heuristic":true}}
  Tagged |-> <<"{","\"","f","a","m","i","l","y","_","s","i","z","e","\"",":","4",",","\"","o",
      "t","h","e","r","\"",":","{","\"","h","e","u","r","i","s","t","i","c","\"",":","t","r",
      "u","e","}","}">>
]

\* texts the justification call can answer with
ReasonReply == [
  \* [{"id":"c1","reason":"Great for city trips"},{"id":"c2","reason":"  Roomy and safe!  "}]
  Both |-> <<"[","{","\"","i","d","\"",":","\"","c","1","\"",",","\"","r","e","a","s","o","n",
      "\"",":","\"","G","r","e","a","t"," ","f","o","r"," ","c","i","t","y"," ","t","r","i","p",
      "s","\"","}",",","{","\"","i","d","\"",":","\"","c","2","\"",",","\"","r","e","a","s","o",
      "n","\"",":","\""," "," ","R","o","o","m","y"," ","a","n","d"," ","s","a","f","e","!"," ",
      " ","\"","}","]">>,
  \* Here: [{"id":"c3","reason":"Easy to park"},{"id":"zz","reason":"Not a car"}] done
  Lead |-> <<"H","e","r","e",":"," ","[","{","\"","i","d","\"",":","\"","c","3","\"",",","\"",
      "r","e","a","s","o","n","\"",":","\"","E","a","s","y"," ","t","o"," ","p","a","r","k",
      "\"","}",",","{","\"","i","d","\"",":","\"","z","z","\"",",","\"","r","e","a","s","o","n",
      "\"",":","\"","N","o","t"," ","a"," ","c","a","r","\"","}","]"," ","d","o","n","e">>,
  \* [{"id":"c1","reason":"   "},{"id":"c2","reason":null},{"id":"c3"}]
  Blank |-> <<"[","{","\"","i","d","\"",":","\"","c","1","\"",",","\"","r","e","a","s","o","n",
      "\"",":","\""," "," "," ","\"","}",",","{","\"","i","d","\"",":","\"","c","2","\"",",",
      "\"","r","e","a","s","o","n","\"",":","n","u","l","l","}",",","{","\"","i","d","\"",":",
      "\"","c","3","\"","}","]">>,
  \* [{"id":"c1","reason":"w0 w1 w2 w3 w4 w5 w6 w7 w8 w9 w0 w1 w2 w3 w4 w5 w6 w7 w8 w9 w0 w1 w2 w3 w4 w5 w6 w7 w8 w9 w0"}]
  Long |-> <<"[","{","\"","i","d","\"",":","\"","c","1","\"",",","\"","r","e","a","s","o","n",
      "\"",":","\"","w","0"," ","w","1"," ","w","2"," ","w","3"," ","w","4"," ","w","5"," ","w",
      "6"," ","w","7"," ","w","8"," ","w","9"," ","w","0"," ","w","1"," ","w","2"," ","w","3",
      " ","w","4"," ","w","5"," ","w","6"," ","w","7"," ","w","8"," ","w","9"," ","w","0"," ",
      "w","1"," ","w","2"," ","w","3"," ","w","4"," ","w","5"," ","w","6"," ","w","7"," ","w",
      "8"," ","w","9"," ","w","0","\"","}","]">>,
  \* {"id":"c1","reason":"Solo"}
  NotList |-> <<"{","\"","i","d","\"",":","\"","c","1","\"",",","\"","r","e","a","s","o","n",
      "\"",":","\"","S","o","l","o","\"","}">>,
  \* I cannot explain these cars
  Prose |-> <<"I"," ","c","a","n","n","o","t"," ","e","x","p","l","a","i","n"," ","t","h","e",
      "s","e"," ","c","a","r","s">>,
  \* [{"id":"c1","reason":"First"},{"id":"c1","reason":"Second?"},{"id":4,"reason":"By number"}]
  Twice |-> <<"[","{","\"","i","d","\"",":","\"","c","1","\"",",","\"","r","e","a","s","o","n",
      "\"",":","\"","F","i","r","s","t","\"","}",",","{","\"","i","d","\"",":","\"","c","1",
      "\"",",","\"","r","e","a","s","o","n","\"",":","\"","S","e","c","o","n","d","?","\"","}",
      ",","{","\"","i","d","\"",":","4",",","\"","r","e","a","s","o","n","\"",":","\"","B","y",
      " ","n","u","m","b","e","r","\"","}","]">>,
  \* 42
  Number |-> <<"4","2">>,
  \* null
  Null |-> <<"n","u","l","l">>,
  \* "c1 is a good car"
  Str |-> <<"\"","c","1"," ","i","s"," ","a"," ","g","o","o","d"," ","c","a","r","\"">>,
  \* [{"id":"c1","reason":"Great for
  Cut |-> <<"[","{","\"","i","d","\"",":","\"","c","1","\"",",","\"","r","e","a","s","o","n",
      "\"",":","\"","G","r","e","a","t"," ","f","o","r">>,
  \* See [c1] and [c2]
  Brackets |-> <<"S","e","e"," ","[","c","1","]"," ","a","n","d"," ","[","c","2","]">>,
  \* [1,"c1",["c1"],{"id":"c1"},{"reason":"No id."},{"id":"c2","reason":7},{"id":null,"reason":"No car"}]
  Mixed |-> <<"[","1",",","\"","c","1","\"",",","[","\"","c","1","\"","]",",","{","\"","i","d",
      "\"",":","\"","c","1","\"","}",",","{","\"","r","e","a","s","o","n","\"",":","\"","N","o",
      " ","i","d",".","\"","}",",","{","\"","i","d","\"",":","\"","c","2","\"",",","\"","r","e",
      "a","s","o","n","\"",":","7","}",",","{","\"","i","d","\"",":","n","u","l","l",",","\"",
      "r","e","a","s","o","n","\"",":","\"","N","o"," ","c","a","r","\"","}","]">>
]

\* identifiers and metadata values of the candidates, labels of the personas
Data == [
  \* c1
  c1 |-> <<"c","1">>,
  \* c2
  c2 |-> <<"c","2">>,
  \* c3
  c3 |-> <<"c","3">>,
  \* c4
  c4 |-> <<"c","4">>,
  \* c5
  c5 |-> <<"c","5">>,
  \* c6
  c6 |-> <<"c","6">>,
  \* Thar
  Thar |-> <<"T","h","a","r">>,
  \* Swift
  Swift |-> <<"S","w","i","f","t">>,
  \* Old
  Old |-> <<"O","l","d">>,
  \* SUV
  SUV |-> <<"S","U","V">>,
  \* Hatchback
  Hatchback |-> <<"H","a","t","c","h","b","a","c","k">>,
  \* Electric
  Electric |-> <<"E","l","e","c","t","r","i","c">>,
  \* EV
  EV |-> <<"E","V">>,
  \* Diesel
  Diesel |-> <<"D","i","e","s","e","l">>,
  \* Petrol
  Petrol |-> <<"P","e","t","r","o","l">>,
  \* cng
  cng |-> <<"c","n","g">>,
  \* Family-Oriented Buyer
  Family_Oriented_Buyer |-> <<"F","a","m","i","l","y","-","O","r","i","e","n","t","e","d"," ",
      "B","u","y","e","r">>,
  \* General Buyer
  General_Buyer |-> <<"G","e","n","e","r","a","l"," ","B","u","y","e","r">>
]

\* the string literals of persona_agent, and preferences as a reply words them
PersonaLit == [
  \* secondary_needs
  secondary_needs |-> <<"s","e","c","o","n","d","a","r","y","_","n","e","e","d","s">>,
  \* constraints
  constraints |-> <<"c","o","n","s","t","r","a","i","n","t","s">>,
  \* ground_clearance
  ground_clearance |-> <<"g","r","o","u","n","d","_","c","l","e","a","r","a","n","c","e">>,
  \* stability
  stability |-> <<"s","t","a","b","i","l","i","t","y">>,
  \* fuel
  fuel |-> <<"f","u","e","l">>,
  \* power
  power |-> <<"p","o","w","e","r">>,
  \* premium_features
  premium_features |-> <<"p","r","e","m","i","u","m","_","f","e","a","t","u","r","e","s">>,
  \* electric_or_hybrid
  electric_or_hybrid |-> <<"e","l","e","c","t","r","i","c","_","o","r","_","h","y","b","r","i",
      "d">>,
  \* General Driver
  General_Driver |-> <<"G","e","n","e","r","a","l"," ","D","r","i","v","e","r">>,
  \* Outdoor / Adventure Driver
  Outdoor_Adventure_Driver |-> <<"O","u","t","d","o","o","r"," ","/"," ","A","d","v","e","n",
      "t","u","r","e"," ","D","r","i","v","e","r">>,
  \* Family Driver
  Family_Driver |-> <<"F","a","m","i","l","y"," ","D","r","i","v","e","r">>,
  \* Budget Conscious Driver
  Budget_Conscious_Driver |-> <<"B","u","d","g","e","t"," ","C","o","n","s","c","i","o","u","s",
      " ","D","r","i","v","e","r">>,
  \* Eco / EV Enthusiast
  Eco_EV_Enthusiast |-> <<"E","c","o"," ","/"," ","E","V"," ","E","n","t","h","u","s","i","a",
      "s","t">>,
  \* Performance Oriented Driver
  Performance_Oriented_Driver |-> <<"P","e","r","f","o","r","m","a","n","c","e"," ","O","r","i",
      "e","n","t","e","d"," ","D","r","i","v","e","r">>,
  \* Comfort Commuter
  Comfort_Commuter |-> <<"C","o","m","f","o","r","t"," ","C","o","m","m","u","t","e","r">>,
  \* seats >= 
  seats_ge |-> <<"s","e","a","t","s"," ",">","="," ">>,
  \* budget_band == '
  budget_band_eq |-> <<"b","u","d","g","e","t","_","b","a","n","d"," ","=","="," ","'">>,
  \* body_type in 
  body_type_in |-> <<"b","o","d","y","_","t","y","p","e"," ","i","n"," ">>,
  \* Fuel Efficiency
  Fuel_Efficiency |-> <<"F","u","e","l"," ","E","f","f","i","c","i","e","n","c","y">>,
  \* Horsepower
  Horsepower |-> <<"H","o","r","s","e","p","o","w","e","r">>,
  \* City
  City |-> <<"C","i","t","y">>
]
\* </strings>

\* ------------------------------------------------------------------------
\* Python str operations
\* ------------------------------------------------------------------------
\* the value of a one-element set
The(S) == CHOOSE x \in S : TRUE

SetMin(S) == CHOOSE x \in S : \A y \in S : x <= y

SetMax(S) == CHOOSE x \in S : \A y \in S : x >= y

\* the elements of S that lie in lo..hi, in increasing order
RECURSIVE SortedBetween(_, _, _)
SortedBetween(S, lo, hi) ==
  IF lo = hi THEN IF lo \in S THEN <<lo>> ELSE <<>>
  ELSE SortedBetween(S, lo, (lo + hi) \div 2) \o SortedBetween(S, (lo + hi) \div 2 + 1, hi)

\* the elements of a set of naturals in increasing order
SortedNats(S) ==
  The({IF T = {} THEN <<>> ELSE SortedBetween(T, SetMin(T), SetMax(T)) : T \in {S}})

\* The characters in code-point order (the part of ASCII the model uses).  The grave
\* accent, which the TLA+ lexer does not take inside a string, is the atom "GRAVE".
Alphabet ==
  <<"\n"," ","!","\"","'",",","-",".","/","0","1","2","3","4","5","6","7","8","9",":","=","?",
    "A","B","C","D","E","F","G","H","I","J","K","L","M","N","O","P","Q","R","S","T","U","V","W",
    "X","Y","Z","[","\\","]","_","GRAVE","a","b","c","d","e","f","g","h","i","j","k","l","m","n","o",
    "p","q","r","s","t","u","v","w","x","y","z","{","}","NBHYPHEN","RSQUOTE">>

Ord(c) == CHOOSE i \in 1..Len(Alphabet) : Alphabet[i] = c

Uppers == <<"A","B","C","D","E","F","G","H","I","J","K","L","M","N","O","P","Q","R","S","T","U",
            "V","W","X","Y","Z">>

Lowers == <<"a","b","c","d","e","f","g","h","i","j","k","l","m","n","o","p","q","r","s","t","u",
            "v","w","x","y","z">>

LowerChar(c) ==
  IF \E i \in 1..26 : Uppers[i] = c
  THEN Lowers[CHOOSE i \in 1..26 : Uppers[i] = c]
  ELSE c

UpperChar(c) ==
  IF \E i \in 1..26 : Lowers[i] = c
  THEN Uppers[CHOOSE i \in 1..26 : Lowers[i] = c]
  ELSE c

\* s.lower()
Lower(s) == [i \in 1..Len(s) |-> LowerChar(s[i])]

\* p in s
Contains(s, p) == \E i \in 0..(Len(s) - Len(p)) : SubSeq(s, i + 1, i + Len(p)) = p

\* s startswith p at position i (1-based)
StartsAt(s, i, p) == i + Len(p) - 1 <= Len(s) /\ SubSeq(s, i, i + Len(p) - 1) = p

IsSpace(c) == c \in {" ", "\n"}

\* s.strip()
Strip(s) ==
  LET idx == {i \in 1..Len(s) : ~IsSpace(s[i])}
  IN  IF idx = {} THEN <<>> ELSE SubSeq(s, SetMin(idx), SetMax(idx))

\* the first position >= i that holds no whitespace (Len(s)+1 at the end)
SkipWs(s, i) ==
  IF i > Len(s) \/ ~IsSpace(s[i]) THEN i
  ELSE SetMin({j \in i..(Len(s) + 1) : j = Len(s) + 1 \/ ~IsSpace(s[j])})

\* a < b on str: lexicographic by code point
StrLess(a, b) ==
  \/ Len(a) < Len(b) /\ SubSeq(b, 1, Len(a)) = a
  \/ \E i \in 1..Len(a) :
       /\ i <= Len(b)
       /\ SubSeq(a, 1, i - 1) = SubSeq(b, 1, i - 1)
       /\ Ord(a[i]) < Ord(b[i])

\* sorted(S) for a set of str
RECURSIVE SortedStrs(_)
SortedStrs(S) ==
  IF S = {} THEN <<>>
  ELSE LET m == CHOOSE x \in S : \A y \in S : y = x \/ StrLess(x, y)
       IN  <<m>> \o SortedStrs(S \ {m})

\* ------------------------------------------------------------------------
\* Python values
\* ------------------------------------------------------------------------
PyNone == [t |-> "none"]

PyInt(n) == [t |-> "int", n |-> n]

PyBool(b) == [t |-> "bool", b |-> b]

PyStr(s) == [t |-> "str", s |-> s]

PyList(xs) == [t |-> "list", xs |-> xs]

PyDict(f) == [t |-> "dict", m |-> f]

EmptyMap == [k \in {} |-> PyNone]

\* d[k] = v on a mapping
MapSet(d, k, x) == [y \in (DOMAIN d) \cup {k} |-> IF y = k THEN x ELSE d[y]]

\* d.get(k)
Get(d, k) == IF k \in DOMAIN d THEN d[k] ELSE PyNone

\* bool(x)
Truthy(x) ==
  CASE x.t = "none" -> FALSE
    [] x.t = "int" -> x.n # 0
    [] x.t = "bool" -> x.b
    [] x.t = "str" -> x.s # <<>>
    [] x.t = "list" -> x.xs # <<>>
    [] x.t = "dict" -> DOMAIN x.m # {}
    [] x.t = "float" -> x.q.n # 0

IsStr(x, s) == x.t = "str" /\ x.s = s

\* ------------------------------------------------------------------------
\* json.loads, for the JSON the replies use: objects, arrays, strings with
\* the escapes \" \\ \/ \n, integers, null, true, false, and whitespace.
\* A reader result is [ok, v, i]: the value read and the position after it.
\* ------------------------------------------------------------------------
ReadFail == [ok |-> FALSE, v |-> PyNone, i |-> 0]

ReadOk(x, j) == [ok |-> TRUE, v |-> x, i |-> j]

Digits == <<"0","1","2","3","4","5","6","7","8","9">>

IsDigit(c) == \E k \in 1..10 : Digits[k] = c

DigitVal(c) == (CHOOSE k \in 1..10 : Digits[k] = c) - 1

\* the number of backslashes that end just before position p
BackslashRun(s, p) ==
  IF p = 1 \/ s[p - 1] # "\\" THEN 0
  ELSE (p - 1) - SetMax({q \in 0..(p - 1) : q = 0 \/ s[q] # "\\"})

\* position p of a string literal's body opens an escape
OpensEscape(s, p) == s[p] = "\\" /\ BackslashRun(s, p) % 2 = 0

\* the character that an escape stands for
Unescape(c) == IF c = "n" THEN "\n" ELSE c

\* a string literal from position j (after the opening quote): its body runs
\* to the first quote that no backslash escapes; a raw line break or an escape
\* other than \" \\ \/ \n is an error
ReadStringBody(s, j) ==
  LET ends == {e \in j..Len(s) : s[e] = "\"" /\ BackslashRun(s, e) % 2 = 0}
      e    == SetMin(ends)
      kept == SortedNats({p \in j..(e - 1) : ~OpensEscape(s, p)})
  IN  IF ends = {} THEN ReadFail
      ELSE IF \E p \in j..(e - 1) :
                \/ s[p] = "\n"
                \/ OpensEscape(s, p) /\ (p + 1 = e \/ s[p + 1] \notin {"\"", "\\", "/", "n"})
           THEN ReadFail
      ELSE IF \A p \in j..(e - 1) : s[p] # "\\" THEN ReadOk(PyStr(SubSeq(s, j, e - 1)), e + 1)
      ELSE ReadOk(PyStr([k \in 1..Len(kept) |->
                           IF kept[k] > j /\ OpensEscape(s, kept[k] - 1)
                           THEN Unescape(s[kept[k]]) ELSE s[kept[k]]]),
                  e + 1)

\* the digits of an integer from position j: 0 | [1-9][0-9]*
RECURSIVE ReadDigits(_, _, _)
ReadDigits(s, j, acc) ==
  IF j <= Len(s) /\ IsDigit(s[j])
  THEN ReadDigits(s, j + 1, 10 * acc + DigitVal(s[j]))
  ELSE ReadOk(PyInt(acc), j)

ReadNumber(s, i) ==
  LET neg == s[i] = "-"
      j   == IF neg THEN i + 1 ELSE i
  IN  IF j > Len(s) \/ ~IsDigit(s[j]) THEN ReadFail
      ELSE LET r == IF s[j] = "0" THEN ReadOk(PyInt(0), j + 1) ELSE ReadDigits(s, j, 0)
           IN  IF neg THEN ReadOk(PyInt(0 - r.v.n), r.i) ELSE r

RECURSIVE ReadValue(_, _)
RECURSIVE ReadMembers(_, _, _)
RECURSIVE ReadElements(_, _, _)

\* an object's members from position j (at a key), into the mapping acc
ReadMembers(s, j, acc) ==
  IF j > Len(s) \/ s[j] # "\"" THEN ReadFail
  ELSE LET k == ReadStringBody(s, j + 1)
       IN  IF ~k.ok THEN ReadFail
           ELSE LET c == SkipWs(s, k.i)
                IN  IF c > Len(s) \/ s[c] # ":" THEN ReadFail
                    ELSE LET x == ReadValue(s, SkipWs(s, c + 1))
                         IN  IF ~x.ok THEN ReadFail
                             ELSE LET e    == SkipWs(s, x.i)
                                      acc2 == MapSet(acc, k.v.s, x.v)
                                  IN  IF e > Len(s) THEN ReadFail
                                      ELSE IF s[e] = "}" THEN ReadOk(PyDict(acc2), e + 1)
                                      ELSE IF s[e] = ","
                                           THEN ReadMembers(s, SkipWs(s, e + 1), acc2)
                                      ELSE ReadFail

\* an array's elements from position j (at a value), into the list acc
ReadElements(s, j, acc) ==
  LET x == ReadValue(s, j)
  IN  IF ~x.ok THEN ReadFail
      ELSE LET e == SkipWs(s, x.i)
           IN  IF e > Len(s) THEN ReadFail
               ELSE IF s[e] = "]" THEN ReadOk(PyList(Append(acc, x.v)), e + 1)
               ELSE IF s[e] = "," THEN ReadElements(s, SkipWs(s, e + 1), Append(acc, x.v))
               ELSE ReadFail

ReadValue(s, i) ==
  IF i > Len(s) THEN ReadFail
  ELSE IF s[i] = "\"" THEN ReadStringBody(s, i + 1)
  ELSE IF s[i] = "{"
       THEN LET j == SkipWs(s, i + 1)
            IN  IF j <= Len(s) /\ s[j] = "}" THEN ReadOk(PyDict(EmptyMap), j + 1)
                ELSE ReadMembers(s, j, EmptyMap)
  ELSE IF s[i] = "["
       THEN LET j == SkipWs(s, i + 1)
            IN  IF j <= Len(s) /\ s[j] = "]" THEN ReadOk(PyList(<<>>), j + 1)
                ELSE ReadElements(s, j, <<>>)
  ELSE IF StartsAt(s, i, Lit.null) THEN ReadOk(PyNone, i + 4)
  ELSE IF StartsAt(s, i, Lit.true) THEN ReadOk(PyBool(TRUE), i + 4)
  ELSE IF StartsAt(s, i, Lit.false) THEN ReadOk(PyBool(FALSE), i + 5)
  ELSE IF s[i] = "-" \/ IsDigit(s[i]) THEN ReadNumber(s, i)
  ELSE ReadFail

\* json.loads(s): [ok, v]; ok = FALSE is json.JSONDecodeError
JsonLoads(s) ==
  The({IF r.ok /\ SkipWs(s, r.i) = Len(s) + 1
       THEN [ok |-> TRUE, v |-> r.v]
       ELSE [ok |-> FALSE, v |-> PyNone] : r \in {ReadValue(s, SkipWs(s, 1))}})


\* ------------------------------------------------------------------------
\* llm_client.chat_completion
\* ------------------------------------------------------------------------
\* What the provider call does: it raises, or answers with a text ("" when
\* the response carries no text).
ProviderRaises == [raised |-> TRUE, text |-> <<>>]

ProviderText(s) == [raised |-> FALSE, text |-> s]

\* chat_completion: the stripped reply text, or None when the provider
\* raised or the response holds no non-blank text.
ChatCompletion(o) ==
  IF o.raised THEN PyNone
  ELSE IF Strip(o.text) = <<>> THEN PyNone
  ELSE PyStr(Strip(o.text))

\* ------------------------------------------------------------------------
\* semantic_parser_agent
\* ------------------------------------------------------------------------
\* The outcome of a call: it returns v, or raises exc.
Return(x) == [ok |-> TRUE, v |-> x, exc |-> ""]

Raise(e) == [ok |-> FALSE, v |-> PyNone, exc |-> e]

AnyIn(text, phrases) == \E q \in phrases : Contains(text, q)

\* a comprehension that keeps nothing
LowerStrsOf_Nothing(xs) == Return({})

\* {x.lower() for x in xs if isinstance(x, str)}: xs a list, a str (its
\* characters) or a dict (its keys); anything else is not iterable.
LowerStrsOf(xs) ==
  CASE xs.t = "list" ->
         Return({Lower(xs.xs[i].s) : i \in {j \in 1..Len(xs.xs) : xs.xs[j].t = "str"}})
    [] xs.t = "str" -> Return({<<LowerChar(xs.s[i])>> : i \in 1..Len(xs.s)})
    [] xs.t = "dict" -> Return({Lower(k) : k \in DOMAIN xs.m})
    [] OTHER -> Raise("TypeError")

\* s in xs, the operand a str
StrIn(s, xs) ==
  CASE xs.t = "list" -> Return(\E i \in 1..Len(xs.xs) : IsStr(xs.xs[i], s))
    [] xs.t = "str" -> Return(Contains(xs.s, s))
    [] xs.t = "dict" -> Return(s \in DOMAIN xs.m)
    [] OTHER -> Raise("TypeError")

\* xs.append(s)
ListAppend(xs, s) ==
  IF xs.t = "list" THEN Return(PyList(Append(xs.xs, PyStr(s)))) ELSE Raise("AttributeError")

\* parsed.setdefault(k, x)
SetDefault(d, k, x) == IF k \in DOMAIN d THEN d ELSE MapSet(d, k, x)

\* the family_size a family keyword fills in
FamilySizeFor(text) ==
  IF Contains(text, Lit.small_family) \/ Contains(text, Lit.small_families) THEN 3
  ELSE IF Contains(text, Lit.big_family) \/ Contains(text, Lit.large_family) THEN 5
  ELSE 3

\* the budget_band a budget keyword fills in (None when there is none)
BudgetBandFor(text) ==
  IF AnyIn(text, {Lit.mid_price_range, Lit.mid_price, Lit.mid_dash_range, Lit.mid_range})
  THEN PyStr(Lit.mid)
  ELSE IF AnyIn(text, {Lit.low_budget, Lit.cheap, Lit.entry_level, Lit.entry_dash_level})
  THEN PyStr(Lit.low)
  ELSE IF AnyIn(text, {Lit.high_budget, Lit.premium, Lit.luxury}) THEN PyStr(Lit.high)
  ELSE PyNone

\* the midsize-car rule on body_type_preference
MidsizeRule(text, body) ==
  IF AnyIn(text, {Lit.midsize_car, Lit.mid_size_car, Lit.mid_dash_size_car})
  THEN LET has == StrIn(Lit.sedan, body)
       IN  IF ~has.ok THEN has
           ELSE IF has.v THEN Return(body)
           ELSE ListAppend(body, Lit.sedan)
  ELSE Return(body)

\* the offroad rule on body_type_preference
OffroadRule(usage, body) ==
  IF Lit.offroad \in usage /\ ~Truthy(body) THEN ListAppend(body, Lit.suv) ELSE Return(body)

StrList(S) == LET xs == SortedStrs(S) IN PyList([i \in 1..Len(xs) |-> PyStr(xs[i])])

\* _enrich_from_text(parsed, user_text), parsed a mapping
EnrichFromText(parsed, user_text) ==
  LET text == Lower(user_text)
      p0 == SetDefault(SetDefault(SetDefault(SetDefault(SetDefault(SetDefault(parsed,
              Lit.family_size, PyNone), Lit.budget_band, PyNone), Lit.usage, PyList(<<>>)),
              Lit.preferences, PyList(<<>>)), Lit.body_type_preference, PyList(<<>>)),
              Lit.other, PyDict(EmptyMap))
      u0 == LowerStrsOf(p0[Lit.usage])
      f0 == LowerStrsOf(p0[Lit.preferences])
      fam == AnyIn(text, {Lit.family, Lit.families, Lit.kids})
      outdoor == AnyIn(text, {Lit.hiking, Lit.camp, Lit.offroad, Lit.trail, Lit.mountain, Lit.camping,
                              Lit.trails})
      family_size == IF fam /\ p0[Lit.family_size].t = "none"
                     THEN PyInt(FamilySizeFor(text))
                     ELSE p0[Lit.family_size]
      budget_band == IF p0[Lit.budget_band].t = "none"
                     THEN BudgetBandFor(text)
                     ELSE p0[Lit.budget_band]
      usage == u0.v
                 \cup (IF fam THEN {Lit.family} ELSE {})
                 \cup (IF AnyIn(text, {Lit.daily_commute, Lit.daily_commuting, Lit.daily_driving,
                                       Lit.office_commute, Lit.city_traffic, Lit.city_driving,
                                       Lit.city_use})
                       THEN {Lit.city} ELSE {})
                 \cup (IF outdoor THEN {Lit.offroad} ELSE {})
      prefs == f0.v
                 \cup (IF outdoor THEN {Lit.ruggedness} ELSE {})
                 \cup (IF Contains(text, Lit.comfortable) \/ Contains(text, Lit.comfort)
                       THEN {Lit.comfort} ELSE {})
                 \cup (IF Contains(text, Lit.safe) \/ Contains(text, Lit.safety)
                       THEN {Lit.safety} ELSE {})
                 \cup (IF AnyIn(text, {Lit.mileage, Lit.fuel_efficient, Lit.fuel_efficiency,
                                       Lit.low_fuel_cost})
                       THEN {Lit.fuel_economy} ELSE {})
                 \cup (IF AnyIn(text, {Lit.powerful, Lit.performance, Lit.sporty, Lit.fast})
                       THEN {Lit.performance} ELSE {})
                 \cup (IF Contains(text, Lit.reliable) \/ Contains(text, Lit.low_maintenance)
                       THEN {Lit.reliability} ELSE {})
  IN  IF ~u0.ok THEN Raise(u0.exc)
      ELSE IF ~f0.ok THEN Raise(f0.exc)
      ELSE LET b1 == MidsizeRule(text, p0[Lit.body_type_preference])
           IN  IF ~b1.ok THEN Raise(b1.exc)
               ELSE LET b2 == OffroadRule(usage, b1.v)
                    IN  IF ~b2.ok THEN Raise(b2.exc)
                        ELSE Return([k \in DOMAIN p0 |->
                               CASE k = Lit.family_size -> family_size
                                 [] k = Lit.budget_band -> budget_band
                                 [] k = Lit.usage -> StrList(usage)
                                 [] k = Lit.preferences -> StrList(prefs)
                                 [] k = Lit.body_type_preference -> b2.v
                                 [] OTHER -> p0[k]])

\* the body of the loop of _find_first_balanced_json at position i; end is the
\* position at which the loop returned (0 while it runs)
BalancedStep(s, st, i) ==
  IF st.end # 0 THEN st
  ELSE LET ch   == s[i]
           ins  == IF ch = "\"" /\ ~st.esc THEN ~st.in_string ELSE st.in_string
           esc2 == ch = "\\" /\ ~st.esc
           d2   == IF ch = "{" THEN st.depth + 1
                   ELSE IF ch = "}" THEN st.depth - 1
                   ELSE st.depth
       IN  IF ins THEN [depth |-> st.depth, in_string |-> ins, esc |-> esc2, end |-> 0]
           ELSE IF d2 = 0 THEN [depth |-> d2, in_string |-> ins, esc |-> esc2, end |-> i]
           ELSE [depth |-> d2, in_string |-> ins, esc |-> esc2, end |-> 0]

\* the loop over positions lo..hi, run by halves (the left half first)
RECURSIVE BalancedScan(_, _, _, _)
BalancedScan(s, lo, hi, st) ==
  IF lo > hi THEN st
  ELSE IF lo = hi THEN BalancedStep(s, st, lo)
  ELSE LET mid  == (lo + hi) \div 2
           left == BalancedScan(s, lo, mid, st)
       IN  IF left.end # 0 THEN left ELSE BalancedScan(s, mid + 1, hi, left)

\* _find_first_balanced_json(s): the object text, or None
FindFirstBalancedJson(s) ==
  IF s = <<>> \/ ~Contains(s, <<"{">>) THEN PyNone
  ELSE LET start == SetMin({i \in 1..Len(s) : s[i] = "{"})
           final == BalancedScan(s, start, Len(s),
                      [depth |-> 0, in_string |-> FALSE, esc |-> FALSE, end |-> 0])
       IN  IF final.end = 0 THEN PyNone ELSE PyStr(SubSeq(s, start, final.end))

\* _JSON_FENCE_RE matched at position i: the end of group 1, or 0
FenceGroupStart(s, i) ==
  SkipWs(s, IF StartsAt(s, i + 3, Lit.json) THEN i + 7 ELSE i + 3)

FenceGroupEnds(s, i) ==
  LET b == FenceGroupStart(s, i)
  IN  IF StartsAt(s, i, Lit.fence) /\ b <= Len(s) /\ s[b] = "{"
      THEN {e \in (b + 1)..Len(s) : s[e] = "}" /\ StartsAt(s, SkipWs(s, e + 1), Lit.fence)}
      ELSE {}

\* _JSON_FENCE_RE.search(raw): group 1 of the leftmost match, or None
FenceSearch(s) ==
  LET starts == {i \in 1..Len(s) : FenceGroupEnds(s, i) # {}}
  IN  IF starts = {} THEN PyNone
      ELSE LET i == SetMin(starts)
           IN  PyStr(SubSeq(s, FenceGroupStart(s, i), SetMin(FenceGroupEnds(s, i))))

\* re.sub(r",\s*(\}|])", r"\1", s) at position i: a comma followed by whitespace
\* and a closing brace or bracket is replaced by that closer; next is the position
\* after the text consumed so far
CommaStep(s, st, i) ==
  IF i < st.next THEN st
  ELSE LET j == SkipWs(s, i + 1)
       IN  IF s[i] = "," /\ j <= Len(s) /\ s[j] \in {"}", "]"}
           THEN [out |-> Append(st.out, s[j]), next |-> j + 1]
           ELSE [out |-> Append(st.out, s[i]), next |-> i + 1]

\* the substitution over positions lo..hi, run by halves (the left half first)
RECURSIVE CommaScan(_, _, _, _)
CommaScan(s, lo, hi, st) ==
  IF lo > hi THEN st
  ELSE IF lo = hi THEN CommaStep(s, st, lo)
  ELSE LET mid  == (lo + hi) \div 2
           left == CommaScan(s, lo, mid, st)
       IN  IF left.next > hi THEN left ELSE CommaScan(s, mid + 1, hi, left)

DropTrailingCommas(s) == CommaScan(s, 1, Len(s), [out |-> <<>>, next |-> 1]).out

\* json.loads(s) and, when it fails, json.loads of s without trailing commas
LoadsLenient(s) ==
  The({IF r.ok THEN r ELSE JsonLoads(DropTrailingCommas(s)) : r \in {JsonLoads(s)}})

\* _attempt_json_load(s), s a str or None
AttemptJsonLoad(s) ==
  IF s.t = "none" THEN Raise("JSONDecodeError")
  ELSE The({IF r.ok THEN Return(r.v)
            ELSE The({IF ~Truthy(balanced) THEN Raise("JSONDecodeError")
                      ELSE The({IF rb.ok THEN Return(rb.v) ELSE Raise("JSONDecodeError") :
                                rb \in {LoadsLenient(balanced.s)}}) :
                      balanced \in {FindFirstBalancedJson(s.s)}}) :
            r \in {LoadsLenient(s.s)}})

RequiredKeys ==
  {Lit.family_size, Lit.budget_band, Lit.usage, Lit.preferences, Lit.body_type_preference, Lit.other}

RequiredDefault(k) ==
  CASE k \in {Lit.family_size, Lit.budget_band} -> PyNone
    [] k = Lit.other -> PyDict(EmptyMap)
    [] OTHER -> PyList(<<>>)

\* _normalize_shape(parsed): the mapping with the required keys filled in
NormalizeShape(parsed) ==
  IF parsed.t # "dict" THEN Raise("RuntimeError")
  ELSE Return([k \in (DOMAIN parsed.m) \cup RequiredKeys |->
                 IF k \in DOMAIN parsed.m THEN parsed.m[k] ELSE RequiredDefault(k)])

\* an all-empty Intent that carries no tag
HeuristicSeed_Untagged == [k \in RequiredKeys |-> RequiredDefault(k)]

\* the all-empty Intent of the heuristic pass
HeuristicSeed ==
  [k \in RequiredKeys |->
     IF k = Lit.other THEN PyDict(MapSet(EmptyMap, Lit.heuristic, PyBool(TRUE)))
     ELSE RequiredDefault(k)]

\* the heuristic pass without its keyword enrichment
SimpleHeuristicParse_NoEnrich(user_text) ==
  Return(NormalizeShape(PyDict(HeuristicSeed)).v)

\* _simple_heuristic_parse(user_text)
SimpleHeuristicParse(user_text) ==
  EnrichFromText(NormalizeShape(PyDict(HeuristicSeed)).v, user_text)

\* a _looks_truncated that knows no marker
LooksTruncated_NoMarkers(s) == ~Truthy(s) \/ Len(Strip(s.s)) < MinReplyLen

\* _looks_truncated(s), s a str or None
LooksTruncated(s) ==
  \/ ~Truthy(s)
  \/ AnyIn(Lower(s.s), {Lit.finish_reason_max_tokens, Lit.max_tokens, Lit.partial})
  \/ AnyIn(Lower(s.s), {Lit.sdk_http_response, Lit.candidates_eq})
  \/ Len(Strip(s.s)) < MinReplyLen

\* the handlers of parse_user_needs' two try blocks
ParseFailed(raw, user_text) ==
  IF LooksTruncated(raw) THEN SimpleHeuristicParse(user_text) ELSE Raise("RuntimeError")

\* lines 326-337 once _attempt_json_load(json_text) has given a: normalize, enrich
LoadedJsonText(a, raw, user_text) ==
  IF ~a.ok THEN ParseFailed(raw, user_text)
  ELSE IF a.v.t # "dict" THEN Raise("RuntimeError")
  ELSE EnrichFromText(NormalizeShape(a.v).v, user_text)

\* lines 326-337: load json_text, normalize, enrich
LoadJsonText(json_text, raw, user_text) ==
  The({LoadedJsonText(a, raw, user_text) : a \in {AttemptJsonLoad(json_text)}})

\* lines 315-324 once _attempt_json_load(raw) has given a: a mapping is normalized
\* and enriched at once, anything else goes on to line 326 with json_text None
LoadedRaw(a, raw, user_text) ==
  IF ~a.ok THEN ParseFailed(raw, user_text)
  ELSE IF a.v.t = "dict"
       THEN The({IF e.ok THEN e ELSE ParseFailed(raw, user_text) :
                 e \in {EnrichFromText(NormalizeShape(a.v).v, user_text)}})
  ELSE LoadJsonText(PyNone, raw, user_text)

\* lines 307-312: the text of the fenced block, else of the first balanced object
JsonTextOf(s) ==
  The({IF fence_match.t = "str" THEN fence_match ELSE FindFirstBalancedJson(s) :
       fence_match \in {FenceSearch(s)}})

\* lines 314-337 with json_text extracted
IntentFromJsonText(json_text, raw, user_text) ==
  IF json_text.t = "none"
  THEN The({LoadedRaw(a, raw, user_text) : a \in {AttemptJsonLoad(raw)}})
  ELSE LoadJsonText(json_text, raw, user_text)

\* lines 304-337 of parse_user_needs: from the final raw reply to the Intent
IntentFromReply(raw, user_text) ==
  IF ~Truthy(raw) THEN SimpleHeuristicParse(user_text)
  ELSE The({IntentFromJsonText(json_text, raw, user_text) : json_text \in {JsonTextOf(raw.s)}})

\* ------------------------------------------------------------------------
\* Numbers: a float is the exact fraction n/d, d > 0
\* ------------------------------------------------------------------------
Frac(n, d) == [n |-> n, d |-> d]

FracAdd(a, b) == Frac(a.n * b.d + b.n * a.d, a.d * b.d)

FracMul(a, b) == Frac(a.n * b.n, a.d * b.d)

FracLess(a, b) == a.n * b.d < b.n * a.d

FracEq(a, b) == a.n * b.d = b.n * a.d

FracMin(a, b) == IF FracLess(b, a) THEN b ELSE a

FracMax(a, b) == IF FracLess(a, b) THEN b ELSE a

\* round(a): the nearest integer, a tie going to the even one
Round(a) ==
  LET f  == a.n \div a.d
      r2 == 2 * (a.n - f * a.d)
  IN  IF r2 > a.d THEN f + 1
      ELSE IF r2 < a.d THEN f
      ELSE IF f % 2 = 0 THEN f ELSE f + 1

PyFloat(q) == [t |-> "float", q |-> q]

\* the decimal digits of n >= 0
RECURSIVE NatToStr(_)
NatToStr(n) == IF n < 10 THEN <<Digits[n + 1]>> ELSE Append(NatToStr(n \div 10), Digits[(n % 10) + 1])

\* str(x) for the identifiers and bands that occur: a str, None, an int, a bool
PyStrOf(x) ==
  CASE x.t = "str" -> x.s
    [] x.t = "none" -> Lit.None
    [] x.t = "int" -> IF x.n < 0 THEN <<"-">> \o NatToStr(0 - x.n) ELSE NatToStr(x.n)
    [] x.t = "bool" -> IF x.b THEN Lit.True ELSE Lit.False

\* int(x): [ok, v]; ok = FALSE is the exception int raises
IntOf(x) ==
  CASE x.t = "int" -> [ok |-> TRUE, v |-> x.n]
    [] x.t = "bool" -> [ok |-> TRUE, v |-> IF x.b THEN 1 ELSE 0]
    [] x.t = "float" -> [ok |-> TRUE, v |-> IF x.q.n >= 0 THEN x.q.n \div x.q.d
                                            ELSE 0 - ((0 - x.q.n) \div x.q.d)]
    [] x.t = "str" ->
         LET s == Strip(x.s)
             r == ReadDigits(s, 1, 0)
         IN  IF s # <<>> /\ (\A i \in 1..Len(s) : IsDigit(s[i]))
             THEN [ok |-> TRUE, v |-> r.v.n]
             ELSE [ok |-> FALSE, v |-> 0]
    [] OTHER -> [ok |-> FALSE, v |-> 0]

\* float(x)
FloatOf(x) ==
  CASE x.t = "float" -> Return(x.q)
    [] x.t \in {"int", "bool"} -> Return(Frac(IntOf(x).v, 1))
    [] x.t = "str" -> IF IntOf(x).ok THEN Return(Frac(IntOf(x).v, 1)) ELSE Raise("ValueError")
    [] OTHER -> Raise("TypeError")

\* (x or "").lower()
LowerOrEmpty(x) ==
  IF ~Truthy(x) THEN Return(<<>>)
  ELSE IF x.t = "str" THEN Return(Lower(x.s))
  ELSE Raise("AttributeError")

\* ------------------------------------------------------------------------
\* matcher_agent
\* ------------------------------------------------------------------------
\* a normalisation that takes no value for a distance
NormalizeSimilarity_NoDistance(pinecone_score) ==
  FracMul(FracMax(Frac(0, 1), FracMin(Frac(1, 1), pinecone_score)), Frac(100, 1))

\* _normalize_similarity(pinecone_score), pinecone_score a float
NormalizeSimilarity(pinecone_score) ==
  LET s1 == IF FracLess(pinecone_score, Frac(0, 1)) THEN Frac(0, 1) ELSE pinecone_score
      s2 == IF FracLess(Frac(2, 1), s1) THEN Frac(s1.d, s1.d + s1.n) ELSE s1
      s3 == FracMax(Frac(0, 1), FracMin(Frac(1, 1), s2))
  IN  FracMul(s3, Frac(100, 1))

\* a budget check that never applies
BudgetApplies_Never(parsed, metadata) == FALSE

\* lines 67-70: the budget check applies / is satisfied
BudgetApplies(parsed, metadata) ==
  Truthy(Get(parsed, Lit.budget_band)) /\ Truthy(Get(metadata, Lit.price_band))

BudgetHit(parsed, metadata) ==
  Lower(PyStrOf(Get(parsed, Lit.budget_band))) = Lower(PyStrOf(Get(metadata, Lit.price_band)))

\* lines 72-80: the seats check applies / is satisfied
SeatsApplies(parsed, metadata) ==
  Get(parsed, Lit.family_size).t # "none" /\ Get(metadata, Lit.seats).t # "none"

SeatsHit(parsed, metadata) ==
  LET seats == IntOf(Get(metadata, Lit.seats))
      fam   == IntOf(Get(parsed, Lit.family_size))
  IN  seats.ok /\ fam.ok /\ seats.v >= fam.v + 1

\* lines 87-96: what the usage block adds to score
UsageScore(usage, body) ==
  IF usage # {} /\ body # <<>>
  THEN (IF Lit.offroad \in usage /\ Contains(body, Lit.suv) THEN 1 ELSE 0)
       + (IF Lit.city \in usage /\ AnyIn(body, {Lit.hatch, Lit.sedan, Lit.compact}) THEN 1 ELSE 0)
       + (IF Lit.family \in usage /\ AnyIn(body, {Lit.mpv, Lit.suv, Lit.minivan, Lit.estate})
          THEN 1 ELSE 0)
  ELSE 0

\* lines 82, 84: the lowered str entries of parsed.get("usage", []) or []
UsageOf(parsed) ==
  IF Truthy(Get(parsed, Lit.usage)) THEN LowerStrsOf(Get(parsed, Lit.usage)) ELSE Return({})

\* score and total of _persona_match_score once usage and body are known
PersonaCounts(parsed, metadata, usage, body) ==
  [score |-> (IF BudgetApplies(parsed, metadata) /\ BudgetHit(parsed, metadata) THEN 1 ELSE 0)
             + (IF SeatsApplies(parsed, metadata) /\ SeatsHit(parsed, metadata) THEN 1 ELSE 0)
             + UsageScore(usage, body),
   total |-> (IF BudgetApplies(parsed, metadata) THEN 1 ELSE 0)
             + (IF SeatsApplies(parsed, metadata) THEN 1 ELSE 0)
             + (IF UsageScore(usage, body) > 0 THEN 1 ELSE 0)]

PersonaRatio(c) == IF c.total = 0 THEN Frac(50, 1) ELSE Frac(100 * c.score, c.total)

\* _persona_match_score(parsed, metadata), both mappings
PersonaMatchScore(parsed, metadata) ==
  The({IF ~body.ok THEN Raise(body.exc)
       ELSE The({IF ~usage.ok THEN Raise(usage.exc)
                 ELSE Return(PersonaRatio(PersonaCounts(parsed, metadata, usage.v, body.v))) :
                 usage \in {UsageOf(parsed)}}) :
       body \in {LowerOrEmpty(Get(metadata, Lit.body_type))}})

\* lines 119-130: the boost for the model year
YearBoost(year) ==
  LET y == IntOf(year)
  IN  IF ~Truthy(year) \/ ~y.ok THEN 0
      ELSE IF y.v >= 2022 THEN 30
      ELSE IF y.v >= 2017 THEN 20
      ELSE IF y.v >= 2012 THEN 10
      ELSE 0

\* lines 132-143: the boost for the distance driven
KmBoost(km) ==
  LET k == IntOf(km)
  IN  IF ~Truthy(km) \/ ~k.ok THEN 0
      ELSE IF k.v < 30000 THEN 25
      ELSE IF k.v < 60000 THEN 15
      ELSE IF k.v < 100000 THEN 5
      ELSE 0

\* lines 145-153: the boost for the fuel, fuel lowered
FuelBoost(fuel) ==
  IF Contains(fuel, Lit.electric) \/ Contains(fuel, Lit.ev) THEN 30
  ELSE IF Contains(fuel, Lit.hybrid) THEN 25
  ELSE IF Contains(fuel, Lit.diesel) THEN 20
  ELSE IF Contains(fuel, Lit.petrol) THEN 10
  ELSE 0

\* lines 155-159: the boost for the band, both lowered
BandBoost(user_band, car_band) ==
  IF user_band # <<>> /\ car_band # <<>> /\ user_band = car_band THEN 25 ELSE 0

\* _heuristic_boost(parsed, metadata), both mappings
HeuristicBoost(parsed, metadata) ==
  LET fuel      == LowerOrEmpty(Get(metadata, Lit.fuel))
      user_band == LowerOrEmpty(Get(parsed, Lit.budget_band))
      car_band  == LowerOrEmpty(Get(metadata, Lit.price_band))
      boost     == YearBoost(Get(metadata, Lit.year)) + KmBoost(Get(metadata, Lit.km_driven))
                   + FuelBoost(fuel.v) + BandBoost(user_band.v, car_band.v)
  IN  IF ~fuel.ok THEN Raise(fuel.exc)
      ELSE IF ~user_band.ok THEN Raise(user_band.exc)
      ELSE IF ~car_band.ok THEN Raise(car_band.exc)
      ELSE Return(IF boost > 100 THEN 100 ELSE boost)

\* a or b
Or(a, b) == IF Truthy(a) THEN a ELSE b

\* _safe_get_name(metadata, candidate_id)
SafeGetName(metadata, candidate_id) ==
  Or(Get(metadata, Lit.raw_name),
     Or(Get(metadata, Lit.name),
        Or(Get(metadata, Lit.title), Or(candidate_id, PyStr(Lit.Unknown)))))

\* line 231
alpha == Frac(1, 4)

\* line 232
beta == Frac(3, 20)

\* lines 234-235: the clamped blend
FinalScore(semantic, persona_score, heur) ==
  FracMax(Frac(0, 1), FracMin(Frac(100, 1),
    FracAdd(FracAdd(semantic, FracMul(alpha, persona_score)), FracMul(beta, Frac(heur, 1)))))

\* lines 237-250
Specs(meta) ==
  [k \in {Lit.make, Lit.model, Lit.raw_name, Lit.year, Lit.fuel_type, Lit.seats, Lit.price,
          Lit.price_band, Lit.km_driven, Lit.drivetrain, Lit.transmission, Lit.tags} |->
     CASE k = Lit.model -> Or(Get(meta, Lit.model), Get(meta, Lit.raw_name))
       [] k = Lit.fuel_type -> Or(Get(meta, Lit.fuel_type), Get(meta, Lit.fuel))
       [] k = Lit.price -> Or(Get(meta, Lit.price), Get(meta, Lit.selling_price))
       [] OTHER -> Get(meta, k)]

\* line 224: (c.get("metadata") or {}); a metadata that is no mapping fails at
\* its first .get
MetaOf(c) ==
  LET m == Get(c.m, Lit.metadata)
  IN  IF ~Truthy(m) THEN Return(EmptyMap)
      ELSE IF m.t = "dict" THEN Return(m.m)
      ELSE Raise("AttributeError")

\* line 225: float(c.get("score", 0.0))
PineconeScore(c) ==
  IF Lit.score \in DOMAIN c.m THEN FloatOf(c.m[Lit.score]) ELSE Return(Frac(0, 1))

\* lines 227-264 once meta, pinecone_score, persona_score and heur are known:
\* the loop's locals and the entry appended to results
Scored(c, meta, pinecone_score, persona_score, heur) ==
  [semantic |-> NormalizeSimilarity(pinecone_score),
   persona_score |-> persona_score,
   heur |-> heur,
   final |-> FinalScore(NormalizeSimilarity(pinecone_score), persona_score, heur),
   result |->
     [id |-> Get(c.m, Lit.id),
      name |-> SafeGetName(meta, Get(c.m, Lit.id)),
      score |-> Round(FinalScore(NormalizeSimilarity(pinecone_score), persona_score, heur)),
      reasons |-> <<>>,
      image_url |-> Get(meta, Lit.image_url),
      price_band |-> Get(meta, Lit.price_band),
      body_type |-> Get(meta, Lit.body_type),
      specs |-> Specs(meta)]]

\* lines 224-264: one pass of the loop over candidates, parsed a mapping
ScoreOne(parsed, c) ==
  IF c.t # "dict" THEN Raise("AttributeError")
  ELSE The({
    IF ~meta.ok THEN Raise(meta.exc)
    ELSE The({
      IF ~ps.ok THEN Raise(ps.exc)
      ELSE The({
        IF ~persona_score.ok THEN Raise(persona_score.exc)
        ELSE The({
          IF ~heur.ok THEN Raise(heur.exc)
          ELSE Return(Scored(c, meta.v, ps.v, persona_score.v, heur.v)) :
          heur \in {HeuristicBoost(parsed, meta.v)}}) :
        persona_score \in {PersonaMatchScore(parsed, meta.v)}}) :
      ps \in {PineconeScore(c)}}) :
    meta \in {MetaOf(c)}})

\* an ordering by score, greatest first, that puts the later of two equal scores
\* first
SortedPositions_LaterFirst(scores) ==
  [p \in 1..Len(scores) |->
     CHOOSE i \in 1..Len(scores) :
       Cardinality({j \in 1..Len(scores) :
                      scores[j] > scores[i] \/ (scores[j] = scores[i] /\ j > i)}) = p - 1]

\* line 266: the positions of results in the order results.sort(key=score,
\* reverse=True) leaves them: by score, greatest first, equal scores in their
\* order of entry
SortedPositions(scores) ==
  [p \in 1..Len(scores) |->
     CHOOSE i \in 1..Len(scores) :
       Cardinality({j \in 1..Len(scores) :
                      scores[j] > scores[i] \/ (scores[j] = scores[i] /\ j < i)}) = p - 1]

\* xs[:k]
Prefix(xs, k) ==
  IF k >= 0 THEN SubSeq(xs, 1, IF k < Len(xs) THEN k ELSE Len(xs))
  ELSE SubSeq(xs, 1, IF Len(xs) + k > 0 THEN Len(xs) + k ELSE 0)

\* lines 223-264: the loop over candidates
ScoreAll(parsed, candidates) == [i \in 1..Len(candidates) |-> ScoreOne(parsed, candidates[i])]

\* the first top_k positions with results left in their order of entry
TopPositions_Unsorted(results, top_k) == Prefix([i \in 1..Len(results) |-> i], top_k)

\* lines 266-267: top_matches, as positions in results
TopPositions(results, top_k) ==
  Prefix(SortedPositions([i \in 1..Len(results) |-> results[i].score]), top_k)

\* ------------------------------------------------------------------------
\* reason_agent
\* ------------------------------------------------------------------------
\* s.split(): the maximal runs without whitespace
Split(s) ==
  LET starts == SortedNats({i \in 1..Len(s) : ~IsSpace(s[i]) /\ (i = 1 \/ IsSpace(s[i - 1]))})
      end(i) == CHOOSE j \in i..Len(s) :
                  /\ j = Len(s) \/ IsSpace(s[j + 1])
                  /\ \A m \in i..j : ~IsSpace(s[m])
  IN  [k \in 1..Len(starts) |-> SubSeq(s, starts[k], end(starts[k]))]

\* sep.join(xs)
RECURSIVE Join(_, _)
Join(xs, sep) ==
  IF xs = <<>> THEN <<>>
  ELSE IF Len(xs) = 1 THEN xs[1]
  ELSE Join(SubSeq(xs, 1, Len(xs) - 1), sep) \o sep \o xs[Len(xs)]

\* s.endswith((".", "!", "?"))
EndsSentence(s) == s # <<>> /\ s[Len(s)] \in {".", "!", "?"}

\* lines 56-57, 152-153
WithFullStop(s) == IF EndsSentence(s) THEN s ELSE Append(s, ".")

\* line 150
MaxReasonWords == 30

\* line 55
MaxFallbackBits == 3

\* set(persona.get("primary_needs") or []), the str members: of a list its str
\* entries, of a str its characters, of a dict its keys
NeedsOf(persona) ==
  LET xs == Get(persona, Lit.primary_needs)
  IN  IF ~Truthy(xs) THEN Return({})
      ELSE CASE xs.t = "list" ->
                  Return({xs.xs[i].s : i \in {j \in 1..Len(xs.xs) : xs.xs[j].t = "str"}})
             [] xs.t = "str" -> Return({<<xs.s[i]>> : i \in 1..Len(xs.s)})
             [] xs.t = "dict" -> Return(DOMAIN xs.m)
             [] OTHER -> Raise("TypeError")

\* persona.get("label", "").lower()
LabelOf(persona) ==
  IF Lit.label \in DOMAIN persona
  THEN IF persona[Lit.label].t = "str" THEN Return(Lower(persona[Lit.label].s))
       ELSE Raise("AttributeError")
  ELSE Return(<<>>)

\* lines 22-50: bits, from the needs, the lowered label, and the metadata
FallbackBits(needs, label, meta, body, fuel) ==
  (IF Lit.comfort \in needs THEN <<Lit.fb_comfort>> ELSE <<>>)
  \o (IF Lit.fuel_economy \in needs
      THEN IF Contains(fuel, Lit.hybrid) THEN <<Lit.fb_hybrid>> ELSE <<Lit.fb_fuel>>
      ELSE <<>>)
  \o (IF Lit.space \in needs \/ Contains(label, Lit.family)
      THEN IF Truthy(Get(meta, Lit.seats)) THEN <<Lit.fb_seats>> ELSE <<Lit.fb_space>>
      ELSE <<>>)
  \o (IF Lit.safety \in needs THEN <<Lit.fb_safety>> ELSE <<>>)
  \o (IF Lit.easy_to_park \in needs THEN <<Lit.fb_park>> ELSE <<>>)
  \o (IF body = Lit.suv THEN <<Lit.fb_suv>>
      ELSE IF body = Lit.sedan THEN <<Lit.fb_sedan>>
      ELSE <<>>)
  \o (IF Truthy(Get(meta, Lit.year)) /\ IntOf(Get(meta, Lit.year)).ok
         /\ IntOf(Get(meta, Lit.year)).v >= 2022
      THEN <<Lit.fb_recent>> ELSE <<>>)

\* a sentence made of all the bits, however many
FallbackSentence_AllBits(bits) ==
  IF bits = <<>> THEN Lit.fb_default
  ELSE LET sentence == WithFullStop(Join(bits, Lit.comma_space))
       IN  <<UpperChar(sentence[1])>> \o SubSeq(sentence, 2, Len(sentence))

\* lines 52-58: the sentence made of bits
FallbackSentence(bits) ==
  IF bits = <<>> THEN Lit.fb_default
  ELSE LET sentence == WithFullStop(Join(Prefix(bits, MaxFallbackBits), Lit.comma_space))
       IN  <<UpperChar(sentence[1])>> \o SubSeq(sentence, 2, Len(sentence))

\* _fallback_reason_from_rules(user_text, persona, meta), persona and meta mappings
FallbackReasonFromRules(user_text, persona, meta) ==
  LET needs == NeedsOf(persona)
      body  == LowerOrEmpty(Get(meta, Lit.body_type))
      fuel  == LowerOrEmpty(Or(Get(meta, Lit.fuel_type), Get(meta, Lit.fuel)))
      label == LabelOf(persona)
  IN  IF ~needs.ok THEN Raise(needs.exc)
      ELSE IF ~body.ok THEN Raise(body.exc)
      ELSE IF ~fuel.ok THEN Raise(fuel.exc)
      ELSE IF Lit.space \notin needs.v /\ ~label.ok THEN Raise(label.exc)
      ELSE Return(FallbackSentence(
             FallbackBits(needs.v, IF label.ok THEN label.v ELSE <<>>, meta, body.v, fuel.v)))

\* re.search(r"(\[.*\])", raw, re.S): from the first [ to the last ], or None
BracketSearch(s) ==
  LET opens  == {i \in 1..Len(s) : s[i] = "["}
      closes == {j \in 1..Len(s) : s[j] = "]" /\ opens # {} /\ j > SetMin(opens)}
  IN  IF closes = {} THEN PyNone ELSE PyStr(SubSeq(s, SetMin(opens), SetMax(closes)))

\* lines 121-135: data, or None where the function returns {} at once
ReasonsData(raw) ==
  IF ~Truthy(raw) THEN PyNone
  ELSE The({IF r.ok THEN r.v
            ELSE The({IF m.t = "none" THEN PyNone
                      ELSE The({IF r2.ok THEN r2.v ELSE PyNone : r2 \in {JsonLoads(m.s)}}) :
                      m \in {BracketSearch(raw.s)}}) :
            r \in {JsonLoads(raw.s)}})

\* a reason kept whole, however long
CleanReason_Whole(reason) ==
  IF Strip(reason) = <<>> THEN <<>> ELSE WithFullStop(Strip(reason))

\* lines 147-153: the reason kept for a str reason ("" when it is dropped)
CleanReason(reason) ==
  LET stripped == Strip(reason)
      words    == Split(stripped)
  IN  IF stripped = <<>> THEN <<>>
      ELSE WithFullStop(IF Len(words) > MaxReasonWords
                        THEN Join(SubSeq(words, 1, MaxReasonWords), <<" ">>)
                        ELSE stripped)

\* the test of lines 140-145 alone: a blank reason is kept
GivesReason_Blank(obj) ==
  /\ obj.t = "dict"
  /\ Lit.id \in DOMAIN obj.m
  /\ Lit.reason \in DOMAIN obj.m
  /\ obj.m[Lit.reason].t = "str"

\* lines 140-145 and 148: obj gives an entry of reasons_by_id
GivesReason(obj) ==
  /\ obj.t = "dict"
  /\ Lit.id \in DOMAIN obj.m
  /\ Lit.reason \in DOMAIN obj.m
  /\ obj.m[Lit.reason].t = "str"
  /\ Strip(obj.m[Lit.reason].s) # <<>>

\* lines 137-156: reasons_by_id, a later entry for an id replacing an earlier one
ReasonsById(data) ==
  IF data.t # "list" THEN EmptyMap
  ELSE LET used == {i \in 1..Len(data.xs) : GivesReason(data.xs[i])}
           rid(i) == PyStrOf(data.xs[i].m[Lit.id])
       IN  [r \in {rid(i) : i \in used} |->
              CleanReason(data.xs[SetMax({i \in used : rid(i) = r})].m[Lit.reason].s)]

\* lines 121-156 with a lone JSON object taken as a list of one
GenerateReasons_Lenient(raw) ==
  The({ReasonsById(IF d.t = "dict" THEN PyList(<<d>>) ELSE d) : d \in {ReasonsData(raw)}})

\* generate_reasons_for_top_k once chat_completion has returned raw
GenerateReasonsForTopK(raw) == ReasonsById(ReasonsData(raw))

\* reason_agent.py line 75, matcher_agent.py line 273: m.get("metadata") or {},
\* m an entry of top_matches
EntryMeta(m) ==
  IF "metadata" \in DOMAIN m /\ Truthy(m["metadata"]) THEN m["metadata"].m ELSE EmptyMap

\* reason_agent.py lines 73-89: cars_for_prompt
CarsForPrompt(top_matches) ==
  [i \in 1..Len(top_matches) |->
     LET m    == top_matches[i]
         meta == EntryMeta(m)
     IN  [id |-> m.id,
          name |-> Or(Get(meta, Lit.model), Or(Get(meta, Lit.raw_name), m.name)),
          body_type |-> Or(Get(meta, Lit.body_type), PyStr(<<>>)),
          price_band |-> Or(Get(meta, Lit.price_band), PyStr(<<>>)),
          year |-> Get(meta, Lit.year),
          fuel_type |-> Or(Or(Get(meta, Lit.fuel_type), Get(meta, Lit.fuel)), PyStr(<<>>)),
          seats |-> Get(meta, Lit.seats),
          tags |-> Or(Get(meta, Lit.tags), PyStr(<<>>))]]

\* lines 271-279: the reasons of one entry of top_matches; it has no "metadata"
ReasonsFor(r, reasons_by_id, user_text, persona) ==
  IF PyStrOf(r.id) \in DOMAIN reasons_by_id
  THEN Return(<<reasons_by_id[PyStrOf(r.id)]>>)
  ELSE The({IF fallback.ok THEN Return(<<fallback.v>>) ELSE fallback :
            fallback \in {FallbackReasonFromRules(user_text, persona, EntryMeta(r))}})

\* lines 271-281: top_matches with their reasons
WithReasons(top_matches, reasons_by_id, user_text, persona) ==
  LET rs == [i \in 1..Len(top_matches) |->
               ReasonsFor(top_matches[i], reasons_by_id, user_text, persona)]
  IN  IF \E i \in 1..Len(rs) : ~rs[i].ok
      THEN Raise(rs[SetMin({i \in 1..Len(rs) : ~rs[i].ok})].exc)
      ELSE Return([i \in 1..Len(top_matches) |->
                     [top_matches[i] EXCEPT !.reasons = rs[i].v]])

\* ------------------------------------------------------------------------
\* persona_agent
\* ------------------------------------------------------------------------
\* parsed.get(key, []) or []
ListOrEmpty(parsed, key) ==
  IF Truthy(Get(parsed, key)) THEN Get(parsed, key) ELSE PyList(<<>>)

\* _bool_from_pref(preferences, key), prefs the lowered str entries of preferences
BoolFromPref(prefs, key) == \E p \in prefs : Contains(p, Lower(key))

\* dedup(xs) keeping every occurrence
Dedup_Everything(xs) == xs

\* dedup(xs): the first occurrence of every entry, in order
Dedup(xs) ==
  LET first == SortedNats({i \in 1..Len(xs) : \A j \in 1..(i - 1) : xs[j] # xs[i]})
  IN  [k \in 1..Len(first) |-> xs[first[k]]]

\* what an f-string gives for a list of str that hold no quote
ReprStrs(xs) ==
  <<"[">> \o Join([i \in 1..Len(xs) |-> <<"'">> \o xs[i].s \o <<"'">>], Lit.comma_space)
  \o <<"]">>

\* the seats an Intent asks for (line 21): family_size + 1
SeatsWanted(family_size) == family_size.n + 1

\* lines 20-25: constraints, for a family_size that is None or an int, a
\* budget_band that is None or a str and a list body_pref of str
Constraints(family_size, budget_band, body_pref) ==
  (IF family_size.t # "none"
   THEN <<PersonaLit.seats_ge \o NatToStr(SeatsWanted(family_size))>> ELSE <<>>)
  \o (IF Truthy(budget_band)
      THEN <<PersonaLit.budget_band_eq \o PyStrOf(budget_band) \o <<"'">>>> ELSE <<>>)
  \o (IF Truthy(body_pref) THEN <<PersonaLit.body_type_in \o ReprStrs(body_pref.xs)>> ELSE <<>>)

\* lines 27-43: primary_needs before dedup
PrimaryNeeds(usage_lower, prefs, family_size) ==
  (IF Lit.offroad \in usage_lower THEN <<Lit.ruggedness, PersonaLit.ground_clearance>> ELSE <<>>)
  \o (IF Lit.city \in usage_lower THEN <<Lit.easy_to_park, Lit.fuel_economy>> ELSE <<>>)
  \o (IF Lit.highway \in usage_lower THEN <<PersonaLit.stability, Lit.comfort>> ELSE <<>>)
  \o (IF Lit.family \in usage_lower \/ (family_size.t = "int" /\ family_size.n >= 3)
      THEN <<Lit.space, Lit.safety>> ELSE <<>>)
  \o (IF BoolFromPref(prefs, Lit.safety) THEN <<Lit.safety>> ELSE <<>>)
  \o (IF BoolFromPref(prefs, PersonaLit.fuel) THEN <<Lit.fuel_economy>> ELSE <<>>)
  \o (IF BoolFromPref(prefs, Lit.performance) \/ BoolFromPref(prefs, PersonaLit.power)
      THEN <<Lit.performance>> ELSE <<>>)
  \o (IF BoolFromPref(prefs, Lit.comfort) THEN <<Lit.comfort>> ELSE <<>>)

\* lines 45-48: secondary_needs before dedup
SecondaryNeeds(prefs) ==
  (IF BoolFromPref(prefs, Lit.luxury) \/ BoolFromPref(prefs, Lit.premium)
   THEN <<PersonaLit.premium_features>> ELSE <<>>)
  \o (IF Lit.ev \in prefs \/ Lit.electric \in prefs
      THEN <<PersonaLit.electric_or_hybrid>> ELSE <<>>)

InSeq(x, xs) == \E i \in 1..Len(xs) : xs[i] = x

\* the label with the budget rule tried before the family rule
PersonaLabel_BudgetFirst(primary_needs, secondary_needs, budget_band, usage_lower) ==
  IF InSeq(Lit.ruggedness, primary_needs) THEN PersonaLit.Outdoor_Adventure_Driver
  ELSE IF budget_band = PyStr(Lit.low) THEN PersonaLit.Budget_Conscious_Driver
  ELSE IF InSeq(Lit.space, primary_needs) /\ InSeq(Lit.safety, primary_needs)
       THEN PersonaLit.Family_Driver
  ELSE IF InSeq(PersonaLit.electric_or_hybrid, secondary_needs)
       THEN PersonaLit.Eco_EV_Enthusiast
  ELSE IF InSeq(Lit.performance, primary_needs) THEN PersonaLit.Performance_Oriented_Driver
  ELSE IF InSeq(Lit.comfort, primary_needs) /\ Lit.city \in usage_lower
       THEN PersonaLit.Comfort_Commuter
  ELSE PersonaLit.General_Driver

\* lines 63-75: the label
PersonaLabel(primary_needs, secondary_needs, budget_band, usage_lower) ==
  IF InSeq(Lit.ruggedness, primary_needs) THEN PersonaLit.Outdoor_Adventure_Driver
  ELSE IF InSeq(Lit.space, primary_needs) /\ InSeq(Lit.safety, primary_needs)
       THEN PersonaLit.Family_Driver
  ELSE IF budget_band = PyStr(Lit.low) THEN PersonaLit.Budget_Conscious_Driver
  ELSE IF InSeq(PersonaLit.electric_or_hybrid, secondary_needs)
       THEN PersonaLit.Eco_EV_Enthusiast
  ELSE IF InSeq(Lit.performance, primary_needs) THEN PersonaLit.Performance_Oriented_Driver
  ELSE IF InSeq(Lit.comfort, primary_needs) /\ Lit.city \in usage_lower
       THEN PersonaLit.Comfort_Commuter
  ELSE PersonaLit.General_Driver

\* lines 77-82
PersonaOf(label, primary_needs, secondary_needs, constraints) ==
  LET strs(xs) == PyList([i \in 1..Len(xs) |-> PyStr(xs[i])])
  IN  MapSet(MapSet(MapSet(MapSet(EmptyMap, Lit.label, PyStr(label)),
                           Lit.primary_needs, strs(primary_needs)),
                    PersonaLit.secondary_needs, strs(secondary_needs)),
             PersonaLit.constraints, strs(constraints))

\* a build_persona that takes no family_size
BuildPersona_NoFamilySize(parsed) ==
  IF Get(parsed, Lit.family_size).t = "int" THEN Raise("TypeError") ELSE Return(EmptyMap)

\* build_persona(parsed), parsed a mapping whose family_size is None, an int or
\* a str, whose budget_band is None or a str and whose body_type_preference is
\* None or a list of str
BuildPersona(parsed) ==
  LET family_size == Get(parsed, Lit.family_size)
      budget_band == Get(parsed, Lit.budget_band)
      usage_lower == LowerStrsOf(ListOrEmpty(parsed, Lit.usage))
      prefs_lower == LowerStrsOf(ListOrEmpty(parsed, Lit.preferences))
      body_pref   == ListOrEmpty(parsed, Lit.body_type_preference)
      primary     == Dedup(PrimaryNeeds(usage_lower.v, prefs_lower.v, family_size))
      secondary   == Dedup(SecondaryNeeds(prefs_lower.v))
  IN  IF ~usage_lower.ok THEN Raise(usage_lower.exc)
      ELSE IF ~prefs_lower.ok THEN Raise(prefs_lower.exc)
      ELSE IF family_size.t \notin {"none", "int"} THEN Raise("TypeError")
      ELSE Return(PersonaOf(PersonaLabel(primary, secondary, budget_band, usage_lower.v),
                            primary, secondary,
                            Dedup(Constraints(family_size, budget_band, body_pref))))

\* ------------------------------------------------------------------------
\* State
\* ------------------------------------------------------------------------
VARIABLES
  pc,           \* the position of the call under way
  user_text,    \* the request's free text
  raw,          \* parse_user_needs: the local raw (a str or None)
  first_reply,  \* parse_user_needs: raw as the first completion call left it
  found,        \* _find_first_balanced_json on its own: the value it returned
  calls,        \* the text-completion calls issued so far, in order
  parsed_in,    \* _enrich_from_text: the mapping it was called with
  parsed,       \* the Intent mapping (the result of the parser)
  error,        \* the exception class a call raised ("" when none)
  persona,      \* score_candidates: the persona mapping
  candidates,   \* score_candidates: the candidates retrieved, in order
  top_k,        \* score_candidates: the number of matches asked for
  scored,       \* score_candidates: the loop's locals for each candidate, in order
  order,        \* score_candidates: the positions in candidates of top_matches
  matches,      \* score_candidates: top_matches
  reasons_raw,  \* generate_reasons_for_top_k: the local raw (a str or None)
  sentence,     \* _fallback_reason_from_rules on its own: the value it returned
  reasons_by_id \* score_candidates: the reasons the justification call gave

parse_vars == <<raw, first_reply, found, parsed_in>>

score_vars ==
  <<persona, candidates, top_k, scored, order, matches, reasons_raw, sentence,
    reasons_by_id>>

vars == <<pc, user_text, calls, parsed, error, parse_vars, score_vars>>

\* no scoring under way
ScoreIdle ==
  /\ persona = EmptyMap
  /\ candidates = <<>>
  /\ top_k = 0
  /\ scored = <<>>
  /\ order = <<>>
  /\ matches = <<>>
  /\ reasons_raw = PyNone
  /\ sentence = PyNone
  /\ reasons_by_id = EmptyMap

\* the user texts of the requests
Texts == {Text.Scenario, Text.Empty, Text.Outdoor, Text.Midsize, Text.Commute, Text.Plain}

\* what the provider can do on an extraction call: raise, answer with no text,
\* or answer with one of these texts
ExtractReplies ==
  {Reply.Full, Reply.Some, Reply.Offroad, Reply.Prose, Reply.CutOff, Reply.EmptyObj,
   Reply.PartialWord, Reply.Marker, Reply.MarkerCut, Reply.Fenced, Reply.Array,
   Reply.NullUsage, Reply.Lead, Reply.Comma, Reply.BraceInStr, Reply.FenceInStr,
   Reply.Blank, Reply.Tagged, <<>>}

ExtractOutcomes == {ProviderRaises} \cup {ProviderText(r) : r \in ExtractReplies}

Call(stage, tokens, o) == [stage |-> stage, max_output_tokens |-> tokens, raised |-> o.raised]

\* a call ends: it returned res.v or raised res.exc
Finish(res, done, failed) ==
  IF res.ok
  THEN pc' = done /\ parsed' = res.v /\ error' = ""
  ELSE pc' = failed /\ parsed' = parsed /\ error' = res.exc

\* ------------------------------------------------------------------------
\* parse_user_needs(user_text)
\* ------------------------------------------------------------------------
\* lines 271-293 and, when the reply does not look truncated, 304-337
ParseFirstCall ==
  /\ pc = "parse_first_call"
  /\ \E o \in ExtractOutcomes :
       \E r \in {ChatCompletion(o)} :
           /\ raw' = r
           /\ first_reply' = r
           /\ calls' = Append(calls, Call("extract", ExtractMaxTokens, o))
           /\ IF LooksTruncated(r)
              THEN pc' = "parse_retry_call" /\ UNCHANGED <<parsed, error>>
              ELSE \E res \in {IntentFromReply(r, user_text)} :
                     Finish(res, "parse_returned", "parse_raised")
  /\ UNCHANGED <<user_text, found, parsed_in, score_vars>>

\* lines 293-337: the retry with the fallback prompt, then the extraction
ParseRetryCall ==
  /\ pc = "parse_retry_call"
  /\ \E o \in ExtractOutcomes :
       \E r \in {ChatCompletion(o)} :
           /\ raw' = r
           /\ calls' = Append(calls, Call("retry", RetryMaxTokens, o))
           /\ \E res \in {IntentFromReply(r, user_text)} :
                Finish(res, "parse_returned", "parse_raised")
  /\ UNCHANGED <<user_text, first_reply, found, parsed_in, score_vars>>

InitExtract ==
  /\ pc = "parse_first_call"
  /\ user_text \in Texts
  /\ raw = PyNone
  /\ first_reply = PyNone
  /\ found = PyNone
  /\ calls = <<>>
  /\ parsed_in = EmptyMap
  /\ parsed = EmptyMap
  /\ error = ""
  /\ ScoreIdle

NextExtract == ParseFirstCall \/ ParseRetryCall

SpecExtract == InitExtract /\ [][NextExtract]_vars

\* ------------------------------------------------------------------------
\* _find_first_balanced_json(s) on its own
\* ------------------------------------------------------------------------
\* the greatest length of the strings scanned
MaxScanLen == 4

\* braces, the quote, the backslash and one other character
ScanAlphabet == {"{", "}", "\"", "\\", "a"}

ScanInputs == UNION {[1..n -> ScanAlphabet] : n \in 0..MaxScanLen}

FindCall ==
  /\ pc = "find_call"
  /\ found' = FindFirstBalancedJson(raw.s)
  /\ pc' = "find_returned"
  /\ UNCHANGED <<user_text, calls, parsed, error, raw, first_reply, parsed_in, score_vars>>

InitScan ==
  /\ pc = "find_call"
  /\ raw \in {PyStr(s) : s \in ScanInputs}
  /\ user_text = <<>>
  /\ first_reply = PyNone
  /\ found = PyNone
  /\ calls = <<>>
  /\ parsed_in = EmptyMap
  /\ parsed = EmptyMap
  /\ error = ""
  /\ ScoreIdle

NextScan == FindCall

SpecScan == InitScan /\ [][NextScan]_vars

\* ------------------------------------------------------------------------
\* _enrich_from_text(parsed, user_text) on its own
\* ------------------------------------------------------------------------
\* the all-empty Intent
EmptyIntent == [k \in RequiredKeys |-> RequiredDefault(k)]

StrsList(xs) == PyList([i \in 1..Len(xs) |-> PyStr(xs[i])])

\* the mappings the enrichment is called with
EnrichInputs ==
  {EmptyIntent,
   EmptyMap,
   [EmptyIntent EXCEPT ![Lit.family_size] = PyInt(4), ![Lit.budget_band] = PyStr(Lit.high)],
   [EmptyIntent EXCEPT ![Lit.usage] = StrsList(<<Lit.offroad, Lit.city, Lit.offroad>>)],
   [EmptyIntent EXCEPT ![Lit.usage] = StrsList(<<Lit.highway>>),
                       ![Lit.preferences] = StrsList(<<Lit.safety, Lit.luxury>>)],
   [EmptyIntent EXCEPT ![Lit.body_type_preference] = StrsList(<<Lit.suv>>),
                       ![Lit.budget_band] = PyStr(Lit.low)],
   [EmptyIntent EXCEPT ![Lit.body_type_preference] = StrsList(<<Lit.sedan>>),
                       ![Lit.family_size] = PyInt(5)],
   [EmptyIntent EXCEPT ![Lit.preferences] = StrsList(<<Lit.comfort, Lit.performance>>),
                       ![Lit.usage] = StrsList(<<Lit.family>>)],
   [EmptyIntent EXCEPT ![Lit.usage] = StrsList(<<Lit.highway, Lit.city>>),
                       ![Lit.preferences] = StrsList(<<Lit.safety, PersonaLit.Horsepower>>),
                       ![Lit.body_type_preference] = StrsList(<<Data.SUV, Lit.sedan>>),
                       ![Lit.family_size] = PyInt(2)],
   [EmptyIntent EXCEPT ![Lit.usage] = PyNone],
   [EmptyIntent EXCEPT ![Lit.body_type_preference] = PyNone]}

EnrichCall ==
  /\ pc = "enrich_call"
  /\ \E res \in {EnrichFromText(parsed_in, user_text)} :
       Finish(res, "enrich_returned", "enrich_raised")
  /\ UNCHANGED <<user_text, calls, parse_vars, score_vars>>

InitEnrich ==
  /\ pc = "enrich_call"
  /\ user_text \in Texts
  /\ parsed_in \in EnrichInputs
  /\ raw = PyNone
  /\ first_reply = PyNone
  /\ found = PyNone
  /\ calls = <<>>
  /\ parsed = EmptyMap
  /\ error = ""
  /\ ScoreIdle

NextEnrich == EnrichCall

SpecEnrich == InitEnrich /\ [][NextEnrich]_vars


\* ------------------------------------------------------------------------
\* score_candidates(parsed, persona, candidates, user_text, top_k)
\* ------------------------------------------------------------------------
\* the greatest number of candidates retrieved
MaxCands == 2

\* max_output_tokens of the justification call
ReasonsMaxTokens == 200

\* the default of top_k
DefaultTopK == 3

\* line 34: TOP_K_FOR_LLM when the environment does not set it
TOP_K_FOR_LLM == 3

\* line 35: USE_LLM_REASONS when the environment does not set it; no line of
\* score_candidates or of generate_reasons_for_top_k reads either of the two
USE_LLM_REASONS == FALSE

Map1(k1, x1) == MapSet(EmptyMap, k1, x1)

\* the Intents scored against
Intent_Budget == [EmptyIntent EXCEPT ![Lit.budget_band] = PyStr(Lit.low)]

Intent_Outdoor ==
  [EmptyIntent EXCEPT ![Lit.usage] = StrsList(<<Lit.family, Lit.offroad>>),
                      ![Lit.family_size] = PyInt(5),
                      ![Lit.budget_band] = PyStr(Lit.high)]

Intent_City ==
  [EmptyIntent EXCEPT ![Lit.usage] = StrsList(<<Lit.city>>),
                      ![Lit.family_size] = PyInt(3),
                      ![Lit.budget_band] = PyStr(Lit.low)]

ScoreIntents == {EmptyIntent, Intent_Budget, Intent_Outdoor, Intent_City}

\* the personas
Persona_Family ==
  MapSet(Map1(Lit.label, PyStr(Data.Family_Oriented_Buyer)),
         Lit.primary_needs, StrsList(<<Lit.space, Lit.safety>>))

Persona_General ==
  MapSet(Map1(Lit.label, PyStr(Data.General_Buyer)), Lit.primary_needs, PyList(<<>>))

Personas == {Persona_Family, Persona_General}

\* a candidate as retrieval gives it
Cand(id, score, metadata) ==
  PyDict(MapSet(MapSet(Map1(Lit.id, PyStr(id)), Lit.score, score), Lit.metadata, metadata))

Cand_EV ==
  Cand(Data.c1, PyFloat(Frac(1, 2)),
       PyDict(MapSet(MapSet(Map1(Lit.price_band, PyStr(Lit.low)), Lit.year, PyInt(2023)),
                     Lit.fuel, PyStr(Data.Electric))))

Cand_SUV ==
  Cand(Data.c2, PyFloat(Frac(3, 4)),
       PyDict(MapSet(MapSet(MapSet(MapSet(MapSet(MapSet(Map1(Lit.raw_name, PyStr(Data.Thar)),
              Lit.body_type, PyStr(Data.SUV)), Lit.seats, PyInt(7)),
              Lit.price_band, PyStr(Lit.high)), Lit.year, PyInt(2018)),
              Lit.km_driven, PyInt(45000)), Lit.fuel, PyStr(Data.Diesel))))

Cand_Hatch ==
  Cand(Data.c3, PyFloat(Frac(1, 2)),
       PyDict(MapSet(MapSet(MapSet(MapSet(MapSet(MapSet(Map1(Lit.name, PyStr(Data.Swift)),
              Lit.body_type, PyStr(Data.Hatchback)), Lit.seats, PyInt(5)),
              Lit.price_band, PyStr(Lit.low)), Lit.year, PyInt(2013)),
              Lit.km_driven, PyInt(0)), Lit.fuel, PyStr(Data.Petrol))))

\* no score, no metadata
Cand_Bare == PyDict(MapSet(Map1(Lit.id, PyStr(Data.c4)), Lit.metadata, PyNone))

\* a distance rather than a similarity
Cand_Far ==
  Cand(Data.c5, PyInt(3),
       PyDict(MapSet(MapSet(MapSet(MapSet(Map1(Lit.title, PyStr(Data.Old)),
              Lit.price_band, PyStr(Lit.mid)), Lit.year, PyInt(2005)),
              Lit.km_driven, PyInt(120000)), Lit.fuel, PyStr(Data.cng))))

\* scores like Cand_EV whatever the Intent
Cand_Twin ==
  Cand(Data.c6, PyFloat(Frac(1, 2)),
       PyDict(MapSet(MapSet(Map1(Lit.price_band, PyStr(Lit.low)), Lit.year, PyInt(2022)),
                     Lit.fuel, PyStr(Data.EV))))

Cands == {Cand_EV, Cand_SUV, Cand_Hatch, Cand_Bare, Cand_Far, Cand_Twin}

\* the lists of at most MaxCands distinct candidates
CandLists ==
  {cs \in UNION {[1..n -> Cands] : n \in 0..MaxCands} :
     \A i, j \in 1..Len(cs) : i # j => cs[i] # cs[j]}

\* what the provider can do on the justification call
ReasonOutcomes ==
  {ProviderRaises, ProviderText(<<>>)}
  \cup {ProviderText(r) : r \in {ReasonReply.Both, ReasonReply.Lead, ReasonReply.Blank,
                                 ReasonReply.Long, ReasonReply.NotList, ReasonReply.Prose,
                                 ReasonReply.Twice}}

\* the locals of one pass of the loop that the properties speak of
Locals(x) ==
  [semantic |-> x.semantic, persona_score |-> x.persona_score, heur |-> x.heur,
   final |-> x.final, score |-> x.result.score]

\* lines 221-267: score every candidate, sort, keep the first top_k
ScoreRank ==
  /\ pc = "score_call"
  /\ \E all \in {ScoreAll(parsed, candidates)} :
       IF \E i \in 1..Len(all) : ~all[i].ok
       THEN /\ pc' = "score_raised"
            /\ error' = all[SetMin({i \in 1..Len(all) : ~all[i].ok})].exc
            /\ UNCHANGED <<scored, order, matches>>
       ELSE \E pos \in {TopPositions([i \in 1..Len(all) |-> all[i].v.result], top_k)} :
              /\ scored' = [i \in 1..Len(all) |-> Locals(all[i].v)]
              /\ order' = pos
              /\ matches' = [i \in 1..Len(pos) |-> all[pos[i]].v.result]
              /\ pc' = "reasons_call"
              /\ error' = ""
  /\ UNCHANGED <<user_text, calls, parsed, parse_vars, persona, candidates, top_k,
                 reasons_raw, sentence, reasons_by_id>>

\* lines 269-281: the justification call, then a reason for every match
ReasonsCall ==
  /\ pc = "reasons_call"
  /\ \E o \in ReasonOutcomes :
       \E by_id \in {GenerateReasonsForTopK(ChatCompletion(o))} :
         \E w \in {WithReasons(matches, by_id, user_text, persona)} :
           /\ calls' = Append(calls, Call("reasons", ReasonsMaxTokens, o))
           /\ reasons_raw' = ChatCompletion(o)
           /\ reasons_by_id' = by_id
           /\ IF w.ok
              THEN pc' = "score_returned" /\ matches' = w.v /\ error' = ""
              ELSE pc' = "score_raised" /\ matches' = matches /\ error' = w.exc
  /\ UNCHANGED <<user_text, parsed, parse_vars, persona, candidates, top_k, scored, order,
                 sentence>>

InitScore ==
  /\ pc = "score_call"
  /\ user_text = Text.Scenario
  /\ parsed \in ScoreIntents
  /\ persona \in Personas
  /\ candidates \in CandLists
  /\ top_k \in 0..DefaultTopK
  /\ calls = <<>>
  /\ error = ""
  /\ raw = PyNone
  /\ first_reply = PyNone
  /\ found = PyNone
  /\ parsed_in = EmptyMap
  /\ scored = <<>>
  /\ order = <<>>
  /\ matches = <<>>
  /\ reasons_raw = PyNone
  /\ sentence = PyNone
  /\ reasons_by_id = EmptyMap

NextScore == ScoreRank \/ ReasonsCall

SpecScore == InitScore /\ [][NextScore]_vars

\* ------------------------------------------------------------------------
\* score_candidates on candidates with missing data
\* ------------------------------------------------------------------------
\* a similarity score of None, no metadata
Cand_NullScore == Cand(Data.c5, PyNone, PyNone)

\* no key "metadata" at all
Cand_NoMeta == PyDict(MapSet(Map1(Lit.id, PyStr(Data.c6)), Lit.score, PyFloat(Frac(1, 2))))

\* every field of the metadata None
Cand_NullFields ==
  Cand(Data.c1, PyFloat(Frac(3, 4)),
       PyDict([k \in {Lit.name, Lit.raw_name, Lit.body_type, Lit.seats, Lit.price_band,
                      Lit.year, Lit.km_driven, Lit.fuel} |-> PyNone]))

SparseCands == {Cand_Bare, Cand_NullScore, Cand_NoMeta, Cand_NullFields, Cand_EV}

SparseCandLists ==
  {cs \in UNION {[1..n -> SparseCands] : n \in 0..MaxCands} :
     \A i, j \in 1..Len(cs) : i # j => cs[i] # cs[j]}

InitSparse ==
  /\ pc = "score_call"
  /\ user_text = Text.Scenario
  /\ parsed \in ScoreIntents
  /\ persona \in Personas
  /\ candidates \in SparseCandLists
  /\ top_k = DefaultTopK
  /\ calls = <<>>
  /\ error = ""
  /\ raw = PyNone
  /\ first_reply = PyNone
  /\ found = PyNone
  /\ parsed_in = EmptyMap
  /\ scored = <<>>
  /\ order = <<>>
  /\ matches = <<>>
  /\ reasons_raw = PyNone
  /\ sentence = PyNone
  /\ reasons_by_id = EmptyMap

SpecSparse == InitSparse /\ [][NextScore]_vars

\* ------------------------------------------------------------------------
\* score_candidates on one candidate of a given similarity
\* ------------------------------------------------------------------------
\* similarities are the multiples of 1/SimDenominator from -MaxSim to MaxSim
SimDenominator == 10

MaxSim == 4

Sims == {Frac(n, SimDenominator) : n \in (0 - MaxSim * SimDenominator)..(MaxSim * SimDenominator)}

InitSimilarity ==
  /\ pc = "score_call"
  /\ user_text = Text.Scenario
  /\ parsed \in {EmptyIntent, Intent_Budget}
  /\ persona = Persona_General
  /\ candidates \in {<<Cand(Data.c1, PyFloat(v), PyNone)>> : v \in Sims}
  /\ top_k = DefaultTopK
  /\ calls = <<>>
  /\ error = ""
  /\ raw = PyNone
  /\ first_reply = PyNone
  /\ found = PyNone
  /\ parsed_in = EmptyMap
  /\ scored = <<>>
  /\ order = <<>>
  /\ matches = <<>>
  /\ reasons_raw = PyNone
  /\ sentence = PyNone
  /\ reasons_by_id = EmptyMap

SpecSimilarity == InitSimilarity /\ [][NextScore]_vars

\* ------------------------------------------------------------------------
\* _fallback_reason_from_rules(user_text, persona, meta) on its own
\* ------------------------------------------------------------------------
\* the needs a clause answers to
FallbackNeeds == {Lit.comfort, Lit.fuel_economy, Lit.space, Lit.safety, Lit.easy_to_park}

FallbackPersonas ==
  {MapSet(Map1(Lit.label, PyStr(l)), Lit.primary_needs, StrList(S)) :
     l \in {PersonaLit.Family_Driver, PersonaLit.General_Driver}, S \in SUBSET FallbackNeeds}

\* a field absent, None, or with a value
FieldOptions(k, values) == {EmptyMap, Map1(k, PyNone)} \cup {Map1(k, x) : x \in values}

FallbackMetas ==
  {body @@ year @@ fuel @@ seats :
     body \in FieldOptions(Lit.body_type,
                           {PyStr(Data.SUV), PyStr(Lit.sedan), PyStr(Data.Hatchback)}),
     year \in FieldOptions(Lit.year, {PyInt(2021), PyInt(2022)}),
     fuel \in FieldOptions(Lit.fuel, {PyStr(Data.Petrol), PyStr(Lit.hybrid)})
               \cup {Map1(Lit.fuel_type, PyStr(Lit.hybrid))},
     seats \in {EmptyMap, Map1(Lit.seats, PyInt(5))}}

FallbackCall ==
  /\ pc = "fallback_call"
  /\ \E res \in {FallbackReasonFromRules(user_text, persona, MetaOf(candidates[1]).v)} :
       IF res.ok
       THEN pc' = "fallback_returned" /\ sentence' = PyStr(res.v) /\ error' = ""
       ELSE pc' = "fallback_raised" /\ sentence' = sentence /\ error' = res.exc
  /\ UNCHANGED <<user_text, calls, parsed, parse_vars, persona, candidates, top_k, scored,
                 order, matches, reasons_raw, reasons_by_id>>

InitFallback ==
  /\ pc = "fallback_call"
  /\ user_text = Text.Scenario
  /\ parsed = EmptyIntent
  /\ persona \in FallbackPersonas
  /\ candidates \in {<<Cand(Data.c1, PyFloat(Frac(1, 2)), PyDict(m))>> : m \in FallbackMetas}
  /\ top_k = DefaultTopK
  /\ calls = <<>>
  /\ error = ""
  /\ raw = PyNone
  /\ first_reply = PyNone
  /\ found = PyNone
  /\ parsed_in = EmptyMap
  /\ scored = <<>>
  /\ order = <<>>
  /\ matches = <<>>
  /\ reasons_raw = PyNone
  /\ sentence = PyNone
  /\ reasons_by_id = EmptyMap

NextFallback == FallbackCall

SpecFallback == InitFallback /\ [][NextFallback]_vars

\* ------------------------------------------------------------------------
\* generate_reasons_for_top_k(user_text, persona, top_matches) on its own
\* ------------------------------------------------------------------------
\* what the provider can do on the justification call, with the replies that
\* are no array of objects
JustifyOutcomes ==
  ReasonOutcomes
  \cup {ProviderText(r) : r \in {ReasonReply.Number, ReasonReply.Null, ReasonReply.Str,
                                 ReasonReply.Cut, ReasonReply.Brackets, ReasonReply.Mixed}}

\* lines 114-156: the justification call and the reading of its reply
GenerateCall ==
  /\ pc = "generate_call"
  /\ \E o \in JustifyOutcomes :
       \E r \in {ChatCompletion(o)} :
         /\ calls' = Append(calls, Call("reasons", ReasonsMaxTokens, o))
         /\ reasons_raw' = r
         /\ reasons_by_id' = GenerateReasonsForTopK(r)
         /\ pc' = "generate_returned"
  /\ UNCHANGED <<user_text, parsed, error, parse_vars, persona, candidates, top_k, scored,
                 order, matches, sentence>>

\* top_matches are the entries score_candidates builds for a list of candidates
InitReasons ==
  /\ pc = "generate_call"
  /\ user_text = Text.Scenario
  /\ parsed = EmptyIntent
  /\ persona \in Personas
  /\ candidates \in CandLists
  /\ top_k = DefaultTopK
  /\ matches = [i \in 1..Len(candidates) |-> ScoreOne(parsed, candidates[i]).v.result]
  /\ calls = <<>>
  /\ error = ""
  /\ raw = PyNone
  /\ first_reply = PyNone
  /\ found = PyNone
  /\ parsed_in = EmptyMap
  /\ scored = <<>>
  /\ order = <<>>
  /\ reasons_raw = PyNone
  /\ sentence = PyNone
  /\ reasons_by_id = EmptyMap

NextReasons == GenerateCall

SpecReasons == InitReasons /\ [][NextReasons]_vars

\* ------------------------------------------------------------------------
\* build_persona(parsed), called twice on the same Intent
\* ------------------------------------------------------------------------
\* the greatest family_size of the Intents
MaxFamilySize == 4

\* Intents of the data model: family_size unset or a positive integer,
\* budget_band unset or a band, lists of str
PersonaIntents ==
  {[EmptyIntent EXCEPT ![Lit.family_size] = f, ![Lit.budget_band] = b, ![Lit.usage] = u,
                       ![Lit.preferences] = p, ![Lit.body_type_preference] = bt] :
     f \in {PyNone} \cup {PyInt(n) : n \in 1..MaxFamilySize},
     b \in {PyNone, PyStr(Lit.low), PyStr(Lit.mid), PyStr(Lit.high)},
     u \in {StrsList(<<>>), StrsList(<<Lit.city>>), StrsList(<<Lit.highway>>),
            StrsList(<<Lit.offroad, Lit.family>>), StrsList(<<PersonaLit.City, Lit.city>>),
            StrsList(<<Lit.family, Lit.highway, Lit.city>>)},
     p \in {StrsList(<<>>), StrsList(<<Lit.safety>>), StrsList(<<Lit.ev>>),
            StrsList(<<Lit.comfort>>), StrsList(<<Lit.performance, Lit.comfort>>),
            StrsList(<<Lit.luxury, Lit.electric>>), StrsList(<<PersonaLit.Fuel_Efficiency>>),
            StrsList(<<PersonaLit.Horsepower, Lit.safety, Lit.safety>>)},
     bt \in {StrsList(<<>>), StrsList(<<Lit.suv>>), StrsList(<<Lit.suv, Lit.sedan>>)}}

\* one call of build_persona; the caller makes two
PersonaCall ==
  /\ pc \in {"persona_call", "persona_called"}
  /\ \E res \in {BuildPersona(parsed)} :
       IF res.ok
       THEN /\ persona' = res.v
            /\ error' = ""
            /\ pc' = IF pc = "persona_call" THEN "persona_called" ELSE "persona_returned"
       ELSE /\ persona' = persona
            /\ error' = res.exc
            /\ pc' = "persona_raised"
  /\ UNCHANGED <<user_text, calls, parsed, parse_vars, candidates, top_k, scored, order,
                 matches, reasons_raw, sentence, reasons_by_id>>

InitPersona ==
  /\ pc = "persona_call"
  /\ user_text = Text.Scenario
  /\ parsed \in PersonaIntents
  /\ persona = EmptyMap
  /\ calls = <<>>
  /\ error = ""
  /\ raw = PyNone
  /\ first_reply = PyNone
  /\ found = PyNone
  /\ parsed_in = EmptyMap
  /\ candidates = <<>>
  /\ top_k = 0
  /\ scored = <<>>
  /\ order = <<>>
  /\ matches = <<>>
  /\ reasons_raw = PyNone
  /\ sentence = PyNone
  /\ reasons_by_id = EmptyMap

NextPersona == PersonaCall

SpecPersona == InitPersona /\ [][NextPersona]_vars

\* ------------------------------------------------------------------------
\* one request of recommend (main.py): parse_user_needs, build_persona,
\* the retrieval, score_candidates
\* ------------------------------------------------------------------------
\* what the retrieval can give back
RequestCandLists == {<<>>, <<Cand_EV>>, <<Cand_Hatch, Cand_EV, Cand_SUV, Cand_Far>>}

\* the user texts of the requests followed from end to end
RequestTexts == {Text.Scenario, Text.Plain}

\* main.py lines 43-66: the persona of the Intent, the candidates retrieved,
\* then score_candidates with the default top_k
Retrieve ==
  /\ pc = "parse_returned"
  /\ \E res \in {BuildPersona(parsed)} :
       IF res.ok
       THEN /\ persona' = res.v
            /\ candidates' \in RequestCandLists
            /\ top_k' = DefaultTopK
            /\ pc' = "score_call"
            /\ error' = ""
       ELSE /\ pc' = "persona_raised"
            /\ error' = res.exc
            /\ UNCHANGED <<persona, candidates, top_k>>
  /\ UNCHANGED <<user_text, calls, parsed, parse_vars, scored, order, matches,
                 reasons_raw, sentence, reasons_by_id>>

NextRequest == ParseFirstCall \/ ParseRetryCall \/ Retrieve \/ ScoreRank \/ ReasonsCall

InitRequest ==
  /\ pc = "parse_first_call"
  /\ user_text \in RequestTexts
  /\ raw = PyNone
  /\ first_reply = PyNone
  /\ found = PyNone
  /\ calls = <<>>
  /\ parsed_in = EmptyMap
  /\ parsed = EmptyMap
  /\ error = ""
  /\ ScoreIdle

SpecRequest == InitRequest /\ [][NextRequest]_vars

\* ------------------------------------------------------------------------
\* Properties of parse_user_needs and of the keyword enrichment
\* ------------------------------------------------------------------------
IsStrList(x) == x.t = "list" /\ \A i \in 1..Len(x.xs) : x.xs[i].t = "str"

StrsOf(x) == {x.xs[i].s : i \in 1..Len(x.xs)}

\* x is a JSON object of the Intent schema (absent fields allowed)
SchemaValid(x) ==
  /\ x.t = "dict"
  /\ DOMAIN x.m \subseteq RequiredKeys
  /\ \A k \in DOMAIN x.m :
       CASE k = Lit.family_size -> x.m[k].t = "none" \/ (x.m[k].t = "int" /\ x.m[k].n > 0)
         [] k = Lit.budget_band -> x.m[k].t = "none"
                                 \/ (x.m[k].t = "str" /\ x.m[k].s \in {Lit.low, Lit.mid, Lit.high})
         [] k = Lit.other -> x.m[k].t = "dict"
         [] OTHER -> IsStrList(x.m[k])

\* r is the text of a JSON object cut off before its opening brace is closed,
\* with no debug or truncation marker and at least MinReplyLen characters
CutOffObject(r) ==
  /\ r.t = "str"
  /\ ~LooksTruncated(r)
  /\ r.s[1] = "{"
  /\ FindFirstBalancedJson(r.s) = PyNone

\* C1: parse_user_needs never raises: whatever the completion calls do (raise,
\* empty text, prose, cut-off or malformed JSON), it returns an Intent carrying
\* all six fields.
C1_ParseNeverRaises ==
  /\ pc # "parse_raised"
  /\ pc = "parse_returned" => RequiredKeys \subseteq DOMAIN parsed

\* C2: when the first reply is a JSON object cut off mid-way (no marker, at
\* least five characters), the retry call is issued and nothing is raised.
C2_CutOffReplyIsRetried ==
  (pc # "parse_first_call" /\ CutOffObject(first_reply)) =>
    /\ pc # "parse_raised"
    /\ pc = "parse_retry_call" \/ Len(calls) = 2

\* C3: when neither the first call nor the retry yields usable text (each raises
\* or yields nothing), parse_user_needs raises nothing and returns exactly the
\* keyword pass over the user text applied to the all-empty Intent (the field
\* other aside, which carries the tag of the heuristic pass).
C3_NoReplyGivesKeywordPass ==
  (Len(calls) = 2 /\ first_reply = PyNone /\ raw = PyNone) =>
    /\ pc = "parse_returned"
    /\ DOMAIN parsed = RequiredKeys
    /\ \A k \in RequiredKeys \ {Lit.other} :
         parsed[k] = EnrichFromText(EmptyIntent, user_text).v[k]

\* both calls were made, the first raised and the second gave no text, and the
\* keyword pass found a usage in the user text
C3_Witness ==
  /\ Len(calls) = 2 /\ first_reply = PyNone /\ raw = PyNone
  /\ calls[1].raised /\ ~calls[2].raised
  /\ pc = "parse_returned"
  /\ parsed[Lit.usage] # PyList(<<>>)

\* C4: for the scenario text, the keyword enrichment of an all-empty Intent
\* gives a usage holding family and city, family_size 3 and budget_band low.
C4_ScenarioKeywordPass ==
  (pc = "enrich_returned" /\ user_text = Text.Scenario /\ parsed_in = EmptyIntent) =>
    /\ {Lit.family, Lit.city} \subseteq StrsOf(parsed[Lit.usage])
    /\ parsed[Lit.family_size] = PyInt(3)
    /\ parsed[Lit.budget_band] = PyStr(Lit.low)

\* C5: a first reply that is a valid JSON object of the Intent schema is never
\* discarded or replaced by a retry or by the heuristic pass: the result is the
\* enrichment of that object, absent fields defaulted.
C5_ValidReplyIsKept ==
  (/\ pc # "parse_first_call"
   /\ first_reply.t = "str"
   /\ JsonLoads(first_reply.s).ok
   /\ SchemaValid(JsonLoads(first_reply.s).v)) =>
    /\ pc = "parse_returned"
    /\ Len(calls) = 1
    /\ parsed = EnrichFromText(NormalizeShape(JsonLoads(first_reply.s).v).v, user_text).v

\* ------------------------------------------------------------------------
\* Properties of score_candidates
\* ------------------------------------------------------------------------
\* results has been sorted and cut to top_matches
Ranked == pc \in {"reasons_call", "score_returned"}

\* candidate i ranks before candidate j: a greater score, or the same score and
\* an earlier place in the input
Before(i, j) ==
  scored[i].score > scored[j].score \/ (scored[i].score = scored[j].score /\ i < j)

Clamp(q) == FracMax(Frac(0, 1), FracMin(Frac(100, 1), q))

\* C6: the list score_candidates returns has at most top_k entries, every score
\* in it is an integer from 0 to 100, and the scores never increase along it.
C6_ScoresBoundedAndSorted ==
  pc = "score_returned" =>
    /\ Len(matches) <= top_k
    /\ \A i \in 1..Len(matches) : matches[i].score \in 0..100
    /\ \A i, j \in 1..Len(matches) : i < j => matches[i].score >= matches[j].score

\* two candidates, one asked for: the second, whose blend exceeds 100 before the
\* clamp, is the one returned
C6_Witness ==
  /\ pc = "score_returned"
  /\ Len(candidates) = 2 /\ top_k = 1
  /\ order = <<2>>
  /\ Len(matches) = 1 /\ matches[1].score = 100
  /\ FracLess(Frac(100, 1),
              FracAdd(FracAdd(scored[2].semantic, FracMul(alpha, scored[2].persona_score)),
                      FracMul(beta, Frac(scored[2].heur, 1))))
  /\ scored[1].score < 100

\* C7: the ranking is stable and deterministic: top_matches is the candidates
\* taken by score, greatest first, candidates of equal score in their input
\* order, cut to top_k; and each score is a function of the Intent and the
\* candidate alone.
C7_RankingStable ==
  Ranked =>
    /\ Len(order) = (IF top_k < Len(candidates) THEN top_k ELSE Len(candidates))
    /\ Len(matches) = Len(order)
    /\ \A a \in 1..Len(order) : order[a] \in 1..Len(candidates)
    /\ \A a, b \in 1..Len(order) : a < b => Before(order[a], order[b])
    /\ \A a \in 1..Len(order) :
         \A j \in 1..Len(candidates) :
           (\A b \in 1..Len(order) : order[b] # j) => Before(order[a], j)
    /\ \A a \in 1..Len(order) :
         /\ matches[a].id = Get(candidates[order[a]].m, Lit.id)
         /\ matches[a].score = scored[order[a]].score
    /\ \A i \in 1..Len(candidates) :
         scored[i].score = ScoreOne(parsed, candidates[i]).v.result.score

\* two different candidates with the same score are both returned, in their
\* input order
C7_Witness ==
  /\ pc = "score_returned"
  /\ Len(candidates) = 2 /\ top_k >= 2
  /\ candidates[1] # candidates[2]
  /\ scored[1].score = scored[2].score
  /\ scored[1].score > 0
  /\ order = <<1, 2>>

\* C8: every Match returned carries exactly one reason, never empty: the
\* sentence the justification call gave for its id when there is one, the
\* fallback sentence otherwise, whatever the justification call did.
C8_OneReasonPerMatch ==
  pc = "score_returned" =>
    \A i \in 1..Len(matches) :
      /\ Len(matches[i].reasons) = 1
      /\ matches[i].reasons[1] # <<>>
      /\ matches[i].reasons[1] =
           IF PyStrOf(matches[i].id) \in DOMAIN reasons_by_id
           THEN reasons_by_id[PyStrOf(matches[i].id)]
           ELSE FallbackReasonFromRules(user_text, persona, EmptyMap).v

\* two matches are returned, the first with the provider's sentence, the
\* second, which the reply left out, with the fallback sentence
C8_Witness ==
  /\ pc = "score_returned"
  /\ Len(matches) = 2
  /\ PyStrOf(matches[1].id) \in DOMAIN reasons_by_id
  /\ PyStrOf(matches[2].id) \notin DOMAIN reasons_by_id
  /\ matches[1].reasons # matches[2].reasons

\* the Intent of the scenario: budget_band low, no family_size, no usage
ScenarioIntent ==
  /\ parsed[Lit.budget_band] = PyStr(Lit.low)
  /\ parsed[Lit.family_size] = PyNone
  /\ parsed[Lit.usage] = PyList(<<>>)

\* the candidate of the scenario: price_band low, year 2023, an electric fuel,
\* neither seats nor body type
ScenarioCandidate(c) ==
  /\ Get(c.m, Lit.metadata).t = "dict"
  /\ Get(Get(c.m, Lit.metadata).m, Lit.price_band) = PyStr(Lit.low)
  /\ Get(Get(c.m, Lit.metadata).m, Lit.year) = PyInt(2023)
  /\ Get(Get(c.m, Lit.metadata).m, Lit.fuel).t = "str"
  /\ Lower(Get(Get(c.m, Lit.metadata).m, Lit.fuel).s) = Lit.electric
  /\ Get(Get(c.m, Lit.metadata).m, Lit.seats) = PyNone
  /\ Get(Get(c.m, Lit.metadata).m, Lit.body_type) = PyNone

\* C9: in the scenario (Intent with budget_band low only; candidate with
\* price_band low, year 2023, fuel electric, no seats or body type) the
\* heuristic-quality score is 85, the persona-match score is 100 (the budget
\* check applies and is satisfied), and the final score is semantic + 37.75
\* clamped to [0,100] and rounded.
C9_ScenarioScores ==
  (Ranked /\ ScenarioIntent) =>
    \A i \in 1..Len(candidates) :
      ScenarioCandidate(candidates[i]) =>
        /\ scored[i].heur = 85
        /\ FracEq(scored[i].persona_score, Frac(100, 1))
        /\ scored[i].score = Round(Clamp(FracAdd(scored[i].semantic, Frac(151, 4))))

\* C9 as the specification words it: persona-match 50, final semantic + 25.25
C9_AsWritten ==
  (Ranked /\ ScenarioIntent) =>
    \A i \in 1..Len(candidates) :
      ScenarioCandidate(candidates[i]) =>
        /\ scored[i].heur = 85
        /\ FracEq(scored[i].persona_score, Frac(50, 1))
        /\ scored[i].score = Round(Clamp(FracAdd(scored[i].semantic, Frac(101, 4))))

\* the scenario candidate, with a semantic score of 50, is returned with 88
C9_Witness ==
  /\ pc = "score_returned"
  /\ ScenarioIntent
  /\ Len(candidates) >= 1 /\ ScenarioCandidate(candidates[1])
  /\ FracEq(scored[1].semantic, Frac(50, 1))
  /\ scored[1].score = 88
  /\ \E a \in 1..Len(matches) : matches[a].id = PyStr(Data.c1) /\ matches[a].score = 88

\* C10: the persona-match sub-score lies in [0,100] for every Intent and
\* candidate: the usage check adds at most one satisfied check, so satisfied
\* checks never exceed applicable checks.
C10_PersonaScoreInRange ==
  \A i \in 1..Len(scored) :
    /\ ~FracLess(scored[i].persona_score, Frac(0, 1))
    /\ ~FracLess(Frac(100, 1), scored[i].persona_score)

\* ------------------------------------------------------------------------
\* Properties of the sub-scores
\* ------------------------------------------------------------------------
\* the metadata of the candidate at position i
MetaAt(i) == MetaOf(candidates[i]).v

\* the bonus for a model year, and for a distance driven that is present
YearBonus(year) ==
  IF year.t # "int" THEN 0
  ELSE IF year.n >= 2022 THEN 30 ELSE IF year.n >= 2017 THEN 20
  ELSE IF year.n >= 2012 THEN 10 ELSE 0

KmBonus(km) ==
  IF km.t # "int" THEN 0
  ELSE IF km.n < 30000 THEN 25 ELSE IF km.n < 60000 THEN 15
  ELSE IF km.n < 100000 THEN 5 ELSE 0

FuelBonus(fuel) ==
  IF fuel.t # "str" THEN 0
  ELSE IF Contains(Lower(fuel.s), Lit.electric) \/ Contains(Lower(fuel.s), Lit.ev) THEN 30
  ELSE IF Contains(Lower(fuel.s), Lit.hybrid) THEN 25
  ELSE IF Contains(Lower(fuel.s), Lit.diesel) THEN 20
  ELSE IF Contains(Lower(fuel.s), Lit.petrol) THEN 10
  ELSE 0

BandBonus(budget_band, price_band) ==
  IF budget_band.t = "str" /\ price_band.t = "str"
     /\ Lower(budget_band.s) = Lower(price_band.s)
  THEN 25 ELSE 0

\* C22: the heuristic-quality score is min(100, year bonus + mileage bonus +
\* fuel bonus + band bonus), the mileage bonus given for every km_driven that
\* is present, 0 included, and it lies in [0,100].
C22_HeuristicBoostIsSumOfBonuses ==
  \A i \in 1..Len(scored) :
    LET sum == YearBonus(Get(MetaAt(i), Lit.year)) + KmBonus(Get(MetaAt(i), Lit.km_driven))
               + FuelBonus(Get(MetaAt(i), Lit.fuel))
               + BandBonus(Get(parsed, Lit.budget_band), Get(MetaAt(i), Lit.price_band))
    IN  /\ scored[i].heur = IF sum > 100 THEN 100 ELSE sum
        /\ scored[i].heur \in 0..100

\* the similarity of the candidate at position i
SimAt(i) == candidates[i].m[Lit.score].q

\* C23: the semantic score is in [0,100] for every raw similarity v: 0 when v
\* is negative, 100 * clamp(1/(1+v), 0, 1) when v > 2, and 100 * clamp(v, 0, 1)
\* otherwise; so every v in [1,2] scores 100 and every v above 2 scores below 34.
C23_SemanticScore ==
  \A i \in 1..Len(scored) :
    LET v == SimAt(i)
        s == scored[i].semantic
    IN  /\ ~FracLess(s, Frac(0, 1)) /\ ~FracLess(Frac(100, 1), s)
        /\ FracLess(v, Frac(0, 1)) => FracEq(s, Frac(0, 1))
        /\ FracLess(Frac(2, 1), v) => FracEq(s, Frac(100 * v.d, v.d + v.n))
        /\ (~FracLess(v, Frac(0, 1)) /\ ~FracLess(Frac(1, 1), v)) =>
             FracEq(s, Frac(100 * v.n, v.d))
        /\ (~FracLess(v, Frac(1, 1)) /\ ~FracLess(Frac(2, 1), v)) => FracEq(s, Frac(100, 1))
        /\ FracLess(Frac(2, 1), v) => FracLess(s, Frac(34, 1))

C23_Witness ==
  /\ pc = "score_returned"
  /\ Len(scored) = 1
  /\ FracEq(SimAt(1), Frac(21, 10))
  /\ FracLess(scored[1].semantic, Frac(34, 1))
  /\ FracLess(Frac(32, 1), scored[1].semantic)

\* the usage check as the specification counts it: it applies when the Intent
\* has usage tags and the candidate a body type, and is satisfied when one of
\* the alignments fires
UsageCheckApplies(i) ==
  UsageOf(parsed).v # {} /\ LowerOrEmpty(Get(MetaAt(i), Lit.body_type)).v # <<>>

UsageCheckHit(i) ==
  UsageScore(UsageOf(parsed).v, LowerOrEmpty(Get(MetaAt(i), Lit.body_type)).v) > 0

\* C24: a check counts as applicable whenever both of its inputs are present,
\* satisfied or not: when the Intent has usage tags and the candidate a body
\* type but no alignment fires, the usage check is one more applicable check
\* that is not satisfied; 50 is the score when no check has both inputs.
C24_UnsatisfiedUsageCheckCounts ==
  \A i \in 1..Len(scored) :
    LET budget  == BudgetApplies(parsed, MetaAt(i))
        seats   == SeatsApplies(parsed, MetaAt(i))
        hits    == (IF budget /\ BudgetHit(parsed, MetaAt(i)) THEN 1 ELSE 0)
                   + (IF seats /\ SeatsHit(parsed, MetaAt(i)) THEN 1 ELSE 0)
        applies == (IF budget THEN 1 ELSE 0) + (IF seats THEN 1 ELSE 0)
    IN  /\ (UsageCheckApplies(i) /\ ~UsageCheckHit(i)) =>
             FracEq(scored[i].persona_score, Frac(100 * hits, applies + 1))
        /\ (~UsageCheckApplies(i) /\ applies = 0) =>
             FracEq(scored[i].persona_score, Frac(50, 1))

\* the only case in which the two differ: usage tags, a body type, no alignment
UsageCheckSkippedWhenUnsatisfied ==
  \A i \in 1..Len(scored) :
    (UsageCheckApplies(i) /\ ~UsageCheckHit(i)) =>
      FracEq(scored[i].persona_score,
             PersonaRatio([score |-> (IF BudgetApplies(parsed, MetaAt(i))
                                         /\ BudgetHit(parsed, MetaAt(i)) THEN 1 ELSE 0)
                                     + (IF SeatsApplies(parsed, MetaAt(i))
                                           /\ SeatsHit(parsed, MetaAt(i)) THEN 1 ELSE 0),
                           total |-> (IF BudgetApplies(parsed, MetaAt(i)) THEN 1 ELSE 0)
                                     + (IF SeatsApplies(parsed, MetaAt(i)) THEN 1 ELSE 0)]))

\* ------------------------------------------------------------------------
\* Properties of what the justification stage sees of a candidate
\* ------------------------------------------------------------------------
\* C25: the projection sent in the batched request carries each surviving
\* candidate's body type, price band, year, fuel type, seats and tags, and a
\* fallback sentence built inside score_candidates is composed from that
\* candidate's metadata.
C25_JustificationSeesMetadata ==
  pc = "score_returned" =>
    \A j \in 1..Len(matches) :
      LET meta == MetaAt(order[j])
          car  == CarsForPrompt(matches)[j]
      IN  /\ car.body_type = Or(Get(meta, Lit.body_type), PyStr(<<>>))
          /\ car.price_band = Or(Get(meta, Lit.price_band), PyStr(<<>>))
          /\ car.year = Get(meta, Lit.year)
          /\ car.fuel_type
               = Or(Or(Get(meta, Lit.fuel_type), Get(meta, Lit.fuel)), PyStr(<<>>))
          /\ car.seats = Get(meta, Lit.seats)
          /\ car.tags = Or(Get(meta, Lit.tags), PyStr(<<>>))
          /\ PyStrOf(matches[j].id) \notin DOMAIN reasons_by_id =>
               matches[j].reasons = <<FallbackReasonFromRules(user_text, persona, meta).v>>

\* what they see instead: nothing of the metadata, whatever the candidate
JustificationSeesNoMetadata ==
  pc = "score_returned" =>
    \A j \in 1..Len(matches) :
      /\ CarsForPrompt(matches)[j].body_type = PyStr(<<>>)
      /\ CarsForPrompt(matches)[j].year = PyNone
      /\ PyStrOf(matches[j].id) \notin DOMAIN reasons_by_id =>
           matches[j].reasons = <<FallbackReasonFromRules(user_text, persona, EmptyMap).v>>

\* ------------------------------------------------------------------------
\* Properties of _fallback_reason_from_rules
\* ------------------------------------------------------------------------
\* the clauses that apply to a persona and a metadata, in the fixed order:
\* comfort, fuel economy, space or family, safety, easy to park, body type,
\* recent year
ClausesFor(p, meta) ==
  LET needs == StrsOf(p[Lit.primary_needs])
      body  == IF Get(meta, Lit.body_type).t = "str" THEN Lower(meta[Lit.body_type].s)
               ELSE <<>>
      fuel  == IF Get(meta, Lit.fuel_type).t = "str" THEN Lower(meta[Lit.fuel_type].s)
               ELSE IF Get(meta, Lit.fuel).t = "str" THEN Lower(meta[Lit.fuel].s)
               ELSE <<>>
      clause(applies, text) == IF applies THEN <<text>> ELSE <<>>
  IN  clause(Lit.comfort \in needs, Lit.fb_comfort)
      \o clause(Lit.fuel_economy \in needs,
                IF Contains(fuel, Lit.hybrid) THEN Lit.fb_hybrid ELSE Lit.fb_fuel)
      \o clause(Lit.space \in needs \/ Contains(Lower(p[Lit.label].s), Lit.family),
                IF Get(meta, Lit.seats).t = "int" THEN Lit.fb_seats ELSE Lit.fb_space)
      \o clause(Lit.safety \in needs, Lit.fb_safety)
      \o clause(Lit.easy_to_park \in needs, Lit.fb_park)
      \o clause(body \in {Lit.suv, Lit.sedan},
                IF body = Lit.suv THEN Lit.fb_suv ELSE Lit.fb_sedan)
      \o clause(Get(meta, Lit.year).t = "int" /\ Get(meta, Lit.year).n >= 2022, Lit.fb_recent)

\* C26: _fallback_reason_from_rules makes no external call, never raises, and
\* returns a non-empty sentence that ends with terminal punctuation and is made
\* of at most three clauses, the first that apply in the fixed order; it is the
\* generic well-rounded-choice sentence exactly when no clause applies.
C26_FallbackPureAndTotal ==
  /\ pc # "fallback_raised"
  /\ pc = "fallback_returned" =>
       LET clauses == ClausesFor(persona, MetaAt(1))
           taken   == SubSeq(clauses, 1, IF Len(clauses) < 3 THEN Len(clauses) ELSE 3)
           joined  == Join(taken, <<",", " ">>) \o <<".">>
       IN  /\ calls = <<>>
           /\ error = ""
           /\ sentence.t = "str" /\ sentence.s # <<>>
           /\ sentence.s[Len(sentence.s)] \in {".", "!", "?"}
           /\ (sentence.s = Lit.fb_default) <=> (clauses = <<>>)
           /\ clauses # <<>> =>
                sentence.s = <<UpperChar(joined[1])>> \o SubSeq(joined, 2, Len(joined))

C26_Witness ==
  /\ pc = "fallback_returned"
  /\ Len(ClausesFor(persona, MetaAt(1))) = 7
  /\ Get(MetaAt(1), Lit.body_type) = PyStr(Data.SUV)
  /\ ~Contains(sentence.s, Lit.fb_suv)
  /\ Contains(sentence.s, Lit.fb_hybrid)

\* ------------------------------------------------------------------------
\* Properties of generate_reasons_for_top_k
\* ------------------------------------------------------------------------
\* the justification call failed: it gave no text, or a text that is no JSON and
\* holds no bracketed part that is JSON, or JSON that is no array
JustifyFailed(r) ==
  \/ r = PyNone
  \/ /\ r # PyNone
     /\ IF JsonLoads(r.s).ok THEN JsonLoads(r.s).v.t # "list"
        ELSE \/ BracketSearch(r.s) = PyNone
             \/ ~JsonLoads(BracketSearch(r.s).s).ok

\* the stringified ids of top_matches
GivenIds == {PyStrOf(matches[i].id) : i \in 1..Len(matches)}

\* C11: generate_reasons_for_top_k never raises, and whenever the justification
\* call fails (no text, the provider raising, a reply that is no JSON and holds
\* no parseable array, a reply that parses to something else than an array) it
\* returns the empty mapping.
C11_FailedCallGivesNoReasons ==
  pc = "generate_returned" =>
    /\ error = ""
    /\ JustifyFailed(reasons_raw) => reasons_by_id = EmptyMap

\* the reply is prose with brackets in it, top_matches is not empty, and the
\* mapping returned is empty
C11_Witness ==
  /\ pc = "generate_returned"
  /\ reasons_raw = PyStr(ReasonReply.Brackets)
  /\ matches # <<>>
  /\ reasons_by_id = EmptyMap

\* C12: every key of the mapping generate_reasons_for_top_k returns is the
\* stringified id of one of the top_matches it was given.
C12_KeysAreGivenIds ==
  pc = "generate_returned" => DOMAIN reasons_by_id \subseteq GivenIds

\* the objects of the reply's array that give a reason: mappings with an id
\* and a reason that is a str and not blank
ReplyObjects ==
  LET data == ReasonsData(reasons_raw)
  IN  IF data.t # "list" THEN <<>> ELSE data.xs

GivesSentence(obj) ==
  /\ obj.t = "dict"
  /\ {Lit.id, Lit.reason} \subseteq DOMAIN obj.m
  /\ obj.m[Lit.reason].t = "str"
  /\ \E i \in 1..Len(obj.m[Lit.reason].s) : ~IsSpace(obj.m[Lit.reason].s[i])

\* C27: every sentence of the mapping generate_reasons_for_top_k returns is
\* non-empty, has at most 30 whitespace-separated words and ends with ".", "!"
\* or "?"; the mapping is keyed by the stringified id, and of several objects
\* with the same id the last one gives the sentence.
C27_SentencesAreBounded ==
  pc = "generate_returned" =>
    /\ \A k \in DOMAIN reasons_by_id :
         /\ reasons_by_id[k] # <<>>
         /\ Len(Split(reasons_by_id[k])) \in 1..30
         /\ reasons_by_id[k][Len(reasons_by_id[k])] \in {".", "!", "?"}
    /\ DOMAIN reasons_by_id
         = {PyStrOf(ReplyObjects[i].m[Lit.id]) :
              i \in {j \in 1..Len(ReplyObjects) : GivesSentence(ReplyObjects[j])}}
    /\ \A i \in 1..Len(ReplyObjects) :
         (/\ GivesSentence(ReplyObjects[i])
          /\ \A j \in (i + 1)..Len(ReplyObjects) :
               GivesSentence(ReplyObjects[j]) =>
                 PyStrOf(ReplyObjects[j].m[Lit.id]) # PyStrOf(ReplyObjects[i].m[Lit.id]))
         => LET given == Split(ReplyObjects[i].m[Lit.reason].s)
                kept  == Split(reasons_by_id[PyStrOf(ReplyObjects[i].m[Lit.id])])
                n     == IF Len(given) < 30 THEN Len(given) ELSE 30
            IN  /\ Len(kept) = n
                /\ SubSeq(kept, 1, n - 1) = SubSeq(given, 1, n - 1)
                /\ kept[n] \in {given[n], Append(given[n], ".")}

C27_Witness ==
  /\ pc = "generate_returned"
  /\ reasons_raw = PyStr(ReasonReply.Twice)
  /\ DOMAIN reasons_by_id = {Data.c1, <<"4">>}
  /\ reasons_by_id[Data.c1] = <<"S", "e", "c", "o", "n", "d", "?">>

\* ------------------------------------------------------------------------
\* Properties of build_persona
\* ------------------------------------------------------------------------
\* the entries of a list of str, in order
ListStrs(x) == [i \in 1..Len(x.xs) |-> x.xs[i].s]

\* a step of build_persona raises nothing, leaves the Intent as it was and, when
\* it is the second call, returns the Persona the first call returned
PureStep ==
  pc \in {"persona_call", "persona_called"} =>
    /\ pc' # "persona_raised"
    /\ parsed' = parsed
    /\ pc = "persona_called" =>
         /\ persona'[Lit.label] = persona[Lit.label]
         /\ \A k \in {Lit.primary_needs, PersonaLit.secondary_needs, PersonaLit.constraints} :
              /\ Len(persona'[k].xs) = Len(persona[k].xs)
              /\ \A i \in 1..Len(persona[k].xs) : persona'[k].xs[i] = persona[k].xs[i]

NeedRules ==
  LET usage == {Lower(parsed[Lit.usage].xs[i].s) : i \in 1..Len(parsed[Lit.usage].xs)}
      prefs == {Lower(parsed[Lit.preferences].xs[i].s) : i \in 1..Len(parsed[Lit.preferences].xs)}
      wants(k) == \E q \in prefs : Contains(q, k)
      family == \/ Lit.family \in usage
                \/ (parsed[Lit.family_size].t = "int" /\ parsed[Lit.family_size].n >= 3)
  IN  << [need |-> Lit.ruggedness, on |-> Lit.offroad \in usage],
         [need |-> PersonaLit.ground_clearance, on |-> Lit.offroad \in usage],
         [need |-> Lit.easy_to_park, on |-> Lit.city \in usage],
         [need |-> Lit.fuel_economy, on |-> Lit.city \in usage],
         [need |-> PersonaLit.stability, on |-> Lit.highway \in usage],
         [need |-> Lit.comfort, on |-> Lit.highway \in usage],
         [need |-> Lit.space, on |-> family],
         [need |-> Lit.safety, on |-> family],
         [need |-> Lit.safety, on |-> wants(Lit.safety)],
         [need |-> Lit.fuel_economy, on |-> wants(PersonaLit.fuel)],
         [need |-> Lit.performance, on |-> wants(Lit.performance) \/ wants(PersonaLit.power)],
         [need |-> Lit.comfort, on |-> wants(Lit.comfort)] >>

\* no entry of xs occurs twice
NoDuplicates(xs) == \A i, j \in 1..Len(xs) : xs[i] = xs[j] => i = j

\* C28: the Persona's primary_needs, secondary_needs and constraints hold no
\* entry twice; primary_needs holds, in the order of the rules offroad
\* (ruggedness, ground_clearance), city (easy_to_park, fuel_economy), highway
\* (stability, comfort), family usage or family_size >= 3 (space, safety), then
\* the preference matches safety, fuel, performance or power, comfort, the need
\* of every rule the Intent triggers at the place of the first rule that adds
\* it; a constraint is there exactly for a field that is set, and the one on
\* seats reads "seats >= " followed by family_size + 1.
C28_NeedsAndConstraints ==
  pc \in {"persona_called", "persona_returned"} =>
    \A rules \in {NeedRules} :
    \A primary \in {ListStrs(persona[Lit.primary_needs])} :
    \A secondary \in {ListStrs(persona[PersonaLit.secondary_needs])} :
    \A constraints \in {ListStrs(persona[PersonaLit.constraints])} :
    \A first \in {{i \in 1..Len(rules) :
                     /\ rules[i].on
                     /\ \A j \in 1..(i - 1) : ~(rules[j].on /\ rules[j].need = rules[i].need)}} :
    \A seats \in {{i \in 1..Len(constraints) : StartsAt(constraints[i], 1, PersonaLit.seats_ge)}} :
    \A band \in {{i \in 1..Len(constraints) :
                    StartsAt(constraints[i], 1, PersonaLit.budget_band_eq)}} :
    \A body \in {{i \in 1..Len(constraints) :
                    StartsAt(constraints[i], 1, PersonaLit.body_type_in)}} :
      /\ NoDuplicates(primary) /\ NoDuplicates(secondary) /\ NoDuplicates(constraints)
      /\ Len(primary) = Cardinality(first)
      /\ \A i \in first : primary[Cardinality({j \in first : j <= i})] = rules[i].need
      /\ \A i, j \in 1..Len(secondary) :
           (secondary[i] = PersonaLit.premium_features
            /\ secondary[j] = PersonaLit.electric_or_hybrid) => i < j
      /\ seats \cup band \cup body = 1..Len(constraints)
      /\ seats # {} <=> parsed[Lit.family_size].t # "none"
      /\ band # {} <=> parsed[Lit.budget_band].t # "none"
      /\ body # {} <=> parsed[Lit.body_type_preference].xs # <<>>
      /\ \A i \in seats :
           constraints[i] = PersonaLit.seats_ge \o NatToStr(parsed[Lit.family_size].n + 1)
      /\ \A i \in seats, j \in band \cup body : i < j
      /\ \A i \in band, j \in body : i < j

\* build_persona has returned for a family of three with family, highway and
\* city usage who prefers performance and comfort: comfort stays where the
\* highway rule put it, and the first constraint is "seats >= 4"
C28_Witness ==
  /\ pc = "persona_returned"
  /\ parsed[Lit.family_size] = PyInt(3)
  /\ parsed[Lit.usage] = StrsList(<<Lit.family, Lit.highway, Lit.city>>)
  /\ parsed[Lit.preferences] = StrsList(<<Lit.performance, Lit.comfort>>)
  /\ ListStrs(persona[Lit.primary_needs])
       = <<Lit.easy_to_park, Lit.fuel_economy, PersonaLit.stability, Lit.comfort,
           Lit.space, Lit.safety, Lit.performance>>
  /\ persona[PersonaLit.constraints].xs[1].s = PersonaLit.seats_ge \o <<"4">>


\* the priority cascade of the label with labels l, in the order Outdoor,
\* Family, Budget, Eco, Performance, Comfort, General
LabelCascade(l) ==
  LET primary   == ListStrs(persona[Lit.primary_needs])
      secondary == ListStrs(persona[PersonaLit.secondary_needs])
      city      == \E i \in 1..Len(parsed[Lit.usage].xs) : Lower(parsed[Lit.usage].xs[i].s) = Lit.city
  IN  IF InSeq(Lit.ruggedness, primary) THEN l[1]
      ELSE IF InSeq(Lit.space, primary) /\ InSeq(Lit.safety, primary) THEN l[2]
      ELSE IF parsed[Lit.budget_band] = PyStr(Lit.low) THEN l[3]
      ELSE IF InSeq(PersonaLit.electric_or_hybrid, secondary) THEN l[4]
      ELSE IF InSeq(Lit.performance, primary) THEN l[5]
      ELSE IF InSeq(Lit.comfort, primary) /\ city THEN l[6]
      ELSE l[7]

\* C14: the label is chosen by a fixed priority cascade, the first rule that
\* matches winning: ruggedness in primary needs gives "Outdoor / Adventure
\* Driver"; else space and safety both in primary needs "Family Driver"; else
\* budget_band low "Budget Conscious Driver"; else electric_or_hybrid in
\* secondary needs "Eco / EV Enthusiast"; else performance in primary needs
\* "Performance Oriented Driver"; else comfort in primary needs with city usage
\* "Comfort Commuter"; otherwise "General Driver".
C14_LabelCascade ==
  pc \in {"persona_called", "persona_returned"} =>
    persona[Lit.label] =
      PyStr(LabelCascade(<<PersonaLit.Outdoor_Adventure_Driver, PersonaLit.Family_Driver,
                           PersonaLit.Budget_Conscious_Driver, PersonaLit.Eco_EV_Enthusiast,
                           PersonaLit.Performance_Oriented_Driver,
                           PersonaLit.Comfort_Commuter, PersonaLit.General_Driver>>))

\* C14 with the two labels spelt without spaces around the slash:
\* "Outdoor/Adventure Driver" and "Eco/EV Enthusiast"
C14_AsWritten ==
  pc \in {"persona_called", "persona_returned"} =>
    persona[Lit.label] =
      PyStr(LabelCascade(<<<<"O","u","t","d","o","o","r","/","A","d","v","e","n","t","u","r","e",
                             " ","D","r","i","v","e","r">>,
                           PersonaLit.Family_Driver, PersonaLit.Budget_Conscious_Driver,
                           <<"E","c","o","/","E","V"," ","E","n","t","h","u","s","i","a","s","t">>,
                           PersonaLit.Performance_Oriented_Driver,
                           PersonaLit.Comfort_Commuter, PersonaLit.General_Driver>>))

\* an Intent that matches the family rule, the budget rule and the
\* electric_or_hybrid rule at once is labelled Family Driver
C14_Witness ==
  /\ pc = "persona_returned"
  /\ persona[Lit.label] = PyStr(PersonaLit.Family_Driver)
  /\ parsed[Lit.budget_band] = PyStr(Lit.low)
  /\ InSeq(PersonaLit.electric_or_hybrid, ListStrs(persona[PersonaLit.secondary_needs]))

\* ------------------------------------------------------------------------
\* Properties of _enrich_from_text
\* ------------------------------------------------------------------------
\* the entries of the list under key k of the mapping d
Entries(d, k) ==
  IF Get(d, k).t = "list" THEN {Get(d, k).xs[i] : i \in 1..Len(Get(d, k).xs)} ELSE {}

\* a str entry in lower case, any other entry as it is
Lowered(x) == IF x.t = "str" THEN PyStr(Lower(x.s)) ELSE x

\* a list of str in strictly ascending order
Ascending(x) ==
  /\ IsStrList(x)
  /\ \A i \in 1..(Len(x.xs) - 1) : StrLess(x.xs[i].s, x.xs[i + 1].s)

\* a family_size and a budget_band that were set are unchanged, the entries
\* of body_type_preference are kept, usage and preferences come out sorted
ScalarsKeptListsSorted ==
  /\ \A k \in {Lit.family_size, Lit.budget_band} :
       Get(parsed_in, k) # PyNone => parsed[k] = Get(parsed_in, k)
  /\ Entries(parsed_in, Lit.body_type_preference)
       \subseteq Entries(parsed, Lit.body_type_preference)
  /\ Ascending(parsed[Lit.usage])
  /\ Ascending(parsed[Lit.preferences])

\* C18: keyword enrichment only adds: a family_size or budget_band already
\* set is unchanged, every entry of the incoming body_type_preference is still
\* in the output list, every entry of the incoming usage and preferences is
\* in the output list in lower case, and usage and preferences come out
\* sorted ascending without duplicates.
C18_EnrichmentOnlyAdds ==
  pc = "enrich_returned" =>
    /\ ScalarsKeptListsSorted
    /\ \A k \in {Lit.usage, Lit.preferences} :
         {Lowered(x) : x \in Entries(parsed_in, k)} \subseteq Entries(parsed, k)

\* C18 as the specification words it: the incoming entries themselves are
\* still in the output lists
C18_AsWritten ==
  pc = "enrich_returned" =>
    /\ ScalarsKeptListsSorted
    /\ \A k \in {Lit.usage, Lit.preferences} :
         Entries(parsed_in, k) \subseteq Entries(parsed, k)

C18_Witness ==
  /\ pc = "enrich_returned"
  /\ user_text = Text.Scenario
  /\ Get(parsed_in, Lit.family_size) = PyInt(2)
  /\ parsed[Lit.family_size] = PyInt(2)
  /\ PyStr(PersonaLit.Horsepower) \in Entries(parsed_in, Lit.preferences)
  /\ PyStr(Lower(PersonaLit.Horsepower)) \in Entries(parsed, Lit.preferences)
  /\ PyStr(Lit.family) \in Entries(parsed, Lit.usage) \ Entries(parsed_in, Lit.usage)

\* ------------------------------------------------------------------------
\* Properties of the path parse_user_needs takes
\* ------------------------------------------------------------------------
\* the source lines 307-326 load: the fenced block, else the first balanced
\* object, else the whole reply
SourceOf(r) ==
  LET fence == FenceSearch(r.s)
      balanced == FindFirstBalancedJson(r.s)
  IN  IF fence.t = "str" THEN fence ELSE IF balanced.t = "str" THEN balanced ELSE r

\* the final reply holds a JSON object that was loaded
BuiltFromReply(r) ==
  /\ Truthy(r)
  /\ AttemptJsonLoad(SourceOf(r)).ok
  /\ AttemptJsonLoad(SourceOf(r)).v.t = "dict"

\* the mapping carries other.heuristic = true
Marked(x) ==
  /\ Lit.other \in DOMAIN x
  /\ x[Lit.other].t = "dict"
  /\ Get(x[Lit.other].m, Lit.heuristic) = PyBool(TRUE)

\* C19: an Intent that the keyword fallback produced carries other.heuristic =
\* true, and an Intent built from a parsed reply has the field other exactly
\* as the reply gave it (an empty mapping when the reply gave none): the core
\* never adds the marker to it.
C19_MarkerOnlyFromFallbackOrReply ==
  pc = "parse_returned" =>
    IF BuiltFromReply(raw)
    THEN LET obj == AttemptJsonLoad(SourceOf(raw)).v.m
         IN  parsed[Lit.other] = IF Lit.other \in DOMAIN obj THEN obj[Lit.other]
                                 ELSE PyDict(EmptyMap)
    ELSE Marked(parsed) /\ parsed = SimpleHeuristicParse(user_text).v

\* C19 as the specification words it: the marker is there exactly when the
\* keyword fallback produced the Intent
C19_AsWritten ==
  pc = "parse_returned" => (Marked(parsed) <=> ~BuiltFromReply(raw))

C19_Witness ==
  /\ pc = "parse_returned"
  /\ Len(calls) = 2
  /\ raw = PyStr(Reply.MarkerCut)
  /\ Marked(parsed)

\* C20: the JSON of a usable reply is taken from the fenced block if one
\* matches, else from the first brace-balanced object, else from the whole
\* reply, and a reply that holds no JSON object at all ends in the heuristic
\* keyword pass, not in a raised error.
C20_SourcesInOrder ==
  (pc \in {"parse_returned", "parse_raised"} /\ Truthy(raw)) =>
    /\ BuiltFromReply(raw) =>
         LET e == EnrichFromText(NormalizeShape(AttemptJsonLoad(SourceOf(raw)).v).v,
                                 user_text)
         IN  e.ok => pc = "parse_returned" /\ parsed = e.v
    /\ (\A i \in 1..Len(raw.s) : raw.s[i] # "{") =>
         pc = "parse_returned" /\ parsed = SimpleHeuristicParse(user_text).v

\* ------------------------------------------------------------------------
\* Properties of the calls of one request
\* ------------------------------------------------------------------------
\* C15: score_candidates asks the model for reasons only when USE_LLM_REASONS
\* is truthy, and then for at most TOP_K_FOR_LLM matches; with the flag at its
\* default (false) it issues no text-completion call at all.
C15_ReasonsCallOnlyWhenEnabled ==
  \A i \in 1..Len(calls) :
    calls[i].stage = "reasons" => USE_LLM_REASONS /\ Len(matches) <= TOP_K_FOR_LLM

\* a reply the claim classifies as truncated or unusable: absent or empty,
\* fewer than 5 characters after trimming, or holding one of the markers
ClassifiedUnusable(r) ==
  \/ r.t = "none"
  \/ r.t = "str" /\ r.s = <<>>
  \/ r.t = "str" /\ Len(Strip(r.s)) < 5
  \/ r.t = "str" /\ \E m \in {Lit.finish_reason_max_tokens, Lit.max_tokens, Lit.partial,
                                Lit.sdk_http_response, Lit.candidates_eq} :
                       Contains(Lower(r.s), m)

Stages == [i \in 1..Len(calls) |-> calls[i].stage]

C17_MissingDataTolerated ==
  /\ pc # "score_raised"
  /\ pc = "score_returned" =>
       /\ Len(matches) = Len(candidates)
       /\ \A i \in 1..Len(candidates) :
            \E j \in 1..Len(matches) : matches[j].id = Get(candidates[i].m, Lit.id)

\* the only missing datum that is not tolerated is a similarity score of None
ScoreRaisedOnlyOnNullScore ==
  /\ pc = "score_raised" =>
       /\ error = "TypeError"
       /\ \E i \in 1..Len(candidates) : candidates[i] = Cand_NullScore
  /\ pc = "score_returned" =>
       /\ \A i \in 1..Len(candidates) : candidates[i] # Cand_NullScore
       /\ Len(matches) = Len(candidates)

\* ------------------------------------------------------------------------
\* Properties of _find_first_balanced_json
\* ------------------------------------------------------------------------
\* where the scan of s stands after the character at i, the scan having begun
\* at start: inside a string literal or not (lit), the next character escaped
\* or not (esc), the depth of the braces met outside the literals, and the
\* position at which the depth came back to zero (0 until it does). With
\* anywhere FALSE a backslash escapes inside a literal only, as in JSON; with
\* anywhere TRUE it also keeps a quote outside a literal from opening one
\* (a brace outside a literal is counted whatever stands before it).
RECURSIVE ScanState(_, _, _, _)
ScanState(s, start, i, anywhere) ==
  IF i < start THEN [lit |-> FALSE, esc |-> FALSE, depth |-> 0, end |-> 0]
  ELSE LET b  == ScanState(s, start, i - 1, anywhere)
           ch == s[i]
           c  == [b EXCEPT !.esc = FALSE]
       IN  IF b.end # 0 THEN b
           ELSE IF ch = "\\" /\ ~b.esc THEN [b EXCEPT !.esc = b.lit \/ anywhere]
           ELSE IF ch = "\"" /\ ~b.esc THEN [b EXCEPT !.lit = ~b.lit]
           ELSE IF b.lit THEN c
           ELSE IF ch = "{" THEN [c EXCEPT !.depth = b.depth + 1]
           ELSE IF ch = "}" THEN [c EXCEPT !.depth = b.depth - 1,
                                           !.end = IF b.depth = 1 THEN i ELSE 0]
           ELSE c

\* the object that opens at the first brace of s, or None
BalancedObject(s, anywhere) ==
  IF \A i \in 1..Len(s) : s[i] # "{" THEN PyNone
  ELSE LET start == SetMin({i \in 1..Len(s) : s[i] = "{"})
           final == ScanState(s, start, Len(s), anywhere)
       IN  IF final.end = 0 THEN PyNone ELSE PyStr(SubSeq(s, start, final.end))

\* C21: _find_first_balanced_json(s) is the substring from the first brace of
\* s to the brace that brings the depth back to zero, braces inside string
\* literals not counted and a quote after an unescaped backslash not ending
\* the literal; it is None exactly when s has no brace or that object is
\* never closed.
C21_FirstBalancedObject ==
  pc = "find_returned" => found = BalancedObject(raw.s, FALSE)

\* what the scanner does: a backslash outside a literal also takes the next
\* quote away, and only then do the two agree
ScannerEscapesAnywhere ==
  pc = "find_returned" => found = BalancedObject(raw.s, TRUE)

=============================================================================
